------------------------------- MODULE MCApp -------------------------------
(***************************************************************************)
(* The client beside its sync engine, on small instances: the shell, the   *)
(* payday effect, the forms, and the clock the ids are made with.  Each is *)
(* a component of its own and they share no state that their properties    *)
(* need, so a behaviour plays one of them, the scene, and leaves the       *)
(* others as one of their initial states.                                  *)
(***************************************************************************)
EXTENDS AppShell, Paydays, Setup, SignInForm, Entries, UuidClock, TLC

VARIABLE scene

appVars == <<scene, shellVars, paydayVars, setupVars, signInVars, entryVars, vars>>

AppInit ==
  /\ scene \in {"shell", "paydays", "setup", "sign-in", "entries", "ids"}
  /\ ShellInit /\ PaydaysInit /\ SetupInit /\ SignInInit /\ EntriesInit /\ Init
  /\ scene # "shell" => \A a \in Accounts : server[a].is = "new"
  /\ scene # "shell" => \A r \in Rows : disk[r] = "none"
  /\ scene # "paydays" => known = {}
  /\ scene # "ids" => clock = 0

AppNext ==
  \/ scene = "shell" /\ ShellNext
     /\ UNCHANGED <<scene, paydayVars, setupVars, signInVars, entryVars, vars>>
  \/ scene = "paydays" /\ PaydaysNext
     /\ UNCHANGED <<scene, shellVars, setupVars, signInVars, entryVars, vars>>
  \/ scene = "setup" /\ SetupNext
     /\ UNCHANGED <<scene, shellVars, paydayVars, signInVars, entryVars, vars>>
  \/ scene = "sign-in" /\ SignInNext
     /\ UNCHANGED <<scene, shellVars, paydayVars, setupVars, entryVars, vars>>
  \/ scene = "entries" /\ EntriesNext
     /\ UNCHANGED <<scene, shellVars, paydayVars, setupVars, signInVars, vars>>
  \/ scene = "ids" /\ Next
     /\ UNCHANGED <<scene, shellVars, paydayVars, setupVars, signInVars, entryVars>>

AppSpec == AppInit /\ [][AppNext]_appVars

\* Every part of the page has values of its type.
AppTypeOK ==
  /\ ShellTypeOK /\ PaydaysTypeOK /\ SetupTypeOK /\ SignInTypeOK /\ EntriesTypeOK /\ TypeOK

\* Setup writes everything that was asked for and is offered once: the screen shows what is
\* stored and is told of all of it, a set-up that has ended is whole, and an account that has
\* categories is not set up again (App.tsx:250-275, 396, 419).
SetUpOnceAndWhole == ShownIsStored /\ ScreenCatchesUp /\ SetupIsWhole /\ SetUpIsOnce

\* One scene alone.
ShellAloneSpec   == AppInit /\ scene = "shell" /\ [][AppNext]_appVars
PaydaysAloneSpec == AppInit /\ scene = "paydays" /\ [][AppNext]_appVars
SignInAloneSpec  == AppInit /\ scene = "sign-in" /\ [][AppNext]_appVars
EntriesAloneSpec == AppInit /\ scene = "entries" /\ [][AppNext]_appVars
IdsAloneSpec     == AppInit /\ scene = "ids" /\ [][AppNext]_appVars

AppSymmetry == Permutations(Accounts)
=============================================================================
