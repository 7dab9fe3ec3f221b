------------------------------ MODULE Console -------------------------------
(***************************************************************************)
(* The pages of the web console, with the requests they send and the rows  *)
(* behind them, in one specification.                                      *)
(*                                                                         *)
(* The areas share no row and no cached query that both write, so that     *)
(* their behaviours together are the interleavings of their behaviours     *)
(* (TogetherSpec).  A run looks at one area at a time (ConsoleSpec).       *)
(***************************************************************************)
EXTENDS Variables, Memberships, RoleOrder, Tokens, Approvals, Fleet, Accounts,
        SignIn, Rollouts, Sources

CONSTANT Areas   \* the areas that are looked at

AllAreas == {"variables", "memberships", "roleOrder", "tokens", "approvals", "fleet",
             "accounts", "signIn", "rollouts", "sources"}

ASSUME ConsoleAssumption == Areas \subseteq AllAreas

VARIABLE area

areasVars == <<variablesVars, membershipsVars, roleOrderVars, tokensVars, approvalsVars,
               fleetVars, accountsVars, signInVars, rolloutsVars, sourcesVars>>

vars == <<area, areasVars>>

\* A step of one area, which leaves the others alone.
StepOf(name) ==
  \/ /\ name = "variables" /\ VariablesNext
     /\ UNCHANGED <<membershipsVars, roleOrderVars, tokensVars, approvalsVars, fleetVars,
                    accountsVars, signInVars, rolloutsVars, sourcesVars>>
  \/ /\ name = "memberships" /\ MembershipsNext
     /\ UNCHANGED <<variablesVars, roleOrderVars, tokensVars, approvalsVars, fleetVars,
                    accountsVars, signInVars, rolloutsVars, sourcesVars>>
  \/ /\ name = "roleOrder" /\ RoleOrderNext
     /\ UNCHANGED <<variablesVars, membershipsVars, tokensVars, approvalsVars, fleetVars,
                    accountsVars, signInVars, rolloutsVars, sourcesVars>>
  \/ /\ name = "tokens" /\ TokensNext
     /\ UNCHANGED <<variablesVars, membershipsVars, roleOrderVars, approvalsVars, fleetVars,
                    accountsVars, signInVars, rolloutsVars, sourcesVars>>
  \/ /\ name = "approvals" /\ ApprovalsNext
     /\ UNCHANGED <<variablesVars, membershipsVars, roleOrderVars, tokensVars, fleetVars,
                    accountsVars, signInVars, rolloutsVars, sourcesVars>>
  \/ /\ name = "fleet" /\ FleetNext
     /\ UNCHANGED <<variablesVars, membershipsVars, roleOrderVars, tokensVars,
                    approvalsVars, accountsVars, signInVars, rolloutsVars, sourcesVars>>
  \/ /\ name = "accounts" /\ AccountsNext
     /\ UNCHANGED <<variablesVars, membershipsVars, roleOrderVars, tokensVars,
                    approvalsVars, fleetVars, signInVars, rolloutsVars, sourcesVars>>
  \/ /\ name = "signIn" /\ SignInNext
     /\ UNCHANGED <<variablesVars, membershipsVars, roleOrderVars, tokensVars,
                    approvalsVars, fleetVars, accountsVars, rolloutsVars, sourcesVars>>
  \/ /\ name = "rollouts" /\ RolloutsNext
     /\ UNCHANGED <<variablesVars, membershipsVars, roleOrderVars, tokensVars,
                    approvalsVars, fleetVars, accountsVars, signInVars, sourcesVars>>
  \/ /\ name = "sources" /\ SourcesNext
     /\ UNCHANGED <<variablesVars, membershipsVars, roleOrderVars, tokensVars,
                    approvalsVars, fleetVars, accountsVars, signInVars, rolloutsVars>>

-----------------------------------------------------------------------------
(* All areas together.                                                     *)

TogetherInit ==
  /\ VariablesInit /\ MembershipsInit /\ RoleOrderInit /\ TokensInit /\ ApprovalsInit
  /\ FleetInit /\ AccountsInit /\ SignInInit /\ RolloutsInit /\ SourcesInit

TogetherNext == \E name \in Areas : StepOf(name)

TogetherSpec == TogetherInit /\ [][TogetherNext]_areasVars

-----------------------------------------------------------------------------
(* One area at a time.                                                     *)

\* Of the areas that are left alone one initial state is enough.
Only(name, initial) == area = name \/ initial

ConsoleInit ==
  /\ area \in Areas
  /\ VariablesInit   /\ Only("variables", \A s \in Scopes, n \in Names :
                                            declared[s] = {} /\ stored[s][n] = << >>)
  /\ MembershipsInit /\ Only("memberships", member = {})
  /\ RoleOrderInit   /\ Only("roleOrder", listed = << >>)
  /\ TokensInit
  /\ ApprovalsInit
  /\ FleetInit       /\ Only("fleet", off = {})
  /\ AccountsInit    /\ Only("accounts", mapping = "none")
  /\ SignInInit      /\ Only("signIn", alive = 0)
  /\ RolloutsInit
  /\ SourcesInit     /\ Only("sources", repo.auth = "NONE" /\ repo.place \notin HttpPlaces)

ConsoleNext == StepOf(area) /\ UNCHANGED area

ConsoleSpec == ConsoleInit /\ [][ConsoleNext]_vars

-----------------------------------------------------------------------------
\* Every part keeps its types; what is left alone keeps its own.
ConsoleTypeOK ==
  /\ area = "variables"   => VariablesTypeOK
  /\ area = "memberships" => MembershipsTypeOK
  /\ area = "roleOrder"   => RoleOrderTypeOK
  /\ area = "tokens"      => TokensTypeOK
  /\ area = "approvals"   => ApprovalsTypeOK
  /\ area = "fleet"       => FleetTypeOK
  /\ area = "accounts"    => AccountsTypeOK
  /\ area = "signIn"      => SignInTypeOK
  /\ area = "rollouts"    => RolloutsTypeOK
  /\ area = "sources"     => SourcesTypeOK

=============================================================================
