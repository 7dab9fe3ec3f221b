----------------------------- MODULE ConsoleMC ------------------------------
(* The console on a small instance. *)
EXTENDS Console

CONSTANTS theTheme, theHost,           \* names of variables
          web, cache, backup           \* Ansible roles

TwoNames      == {theTheme, theHost}
DeclaresTheme == {{}, {theTheme}}
ThreeRoles    == <<web, cache, backup>>

=============================================================================
