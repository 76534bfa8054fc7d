------------------------------ MODULE SystemSetup ------------------------------
(***************************************************************************)
(* The first setup of the system: requests that overlap while one waits    *)
(* for the hash of the administrator's password, saves that fail, and      *)
(* restarts.  What a request has created in memory before it is refused    *)
(* stays there.                                                            *)
(***************************************************************************)
EXTENDS Integers, FiniteSets

CONSTANTS
  Setups,                \* setup requests
  OrganizationOf,        \* the organization code a request asks for
  AdministratorOf,       \* the user name, e-mail and phone it asks for
  MaxSetupSaveFailures, MaxSetupRestarts

ASSUME SetupAssumption ==
  /\ DOMAIN OrganizationOf = Setups /\ DOMAIN AdministratorOf = Setups
  /\ MaxSetupSaveFailures \in Nat /\ MaxSetupRestarts \in Nat

VARIABLES system,     \* the memory: organizations, built-in roles, users, initialized
          saved,      \* the same in the database
          setup,      \* where each request is
          mishaps     \* failed saves and restarts so far

setupVars == <<system, saved, setup, mishaps>>

-----------------------------------------------------------------------------
SetupOrganizations == {OrganizationOf[q] : q \in Setups}
Administrators == {AdministratorOf[q] : q \in Setups}
\* initialized: the request the initialization state is of, if there is one
System == [organizations : SUBSET SetupOrganizations, roles : BOOLEAN,
           users : SUBSET Administrators, initialized : SUBSET Setups]
Stages == {"new", "hashing", "saving", "bootstrapping", "answered", "refused", "failed"}

SetupTypeOK ==
  /\ system \in System /\ saved \in System
  /\ Cardinality(system.initialized) <= 1
  /\ setup \in [Setups -> Stages]
  /\ mishaps \in [saves : 0 .. MaxSetupSaveFailures, restarts : 0 .. MaxSetupRestarts]

Fresh == [organizations |-> {}, roles |-> FALSE, users |-> {}, initialized |-> {}]

SetupInit ==
  /\ system = Fresh /\ saved = Fresh
  /\ setup = [q \in Setups |-> "new"]
  /\ mishaps = [saves |-> 0, restarts |-> 0]

Enters(q, stage) == setup' = [setup EXCEPT ![q] = stage]

-----------------------------------------------------------------------------
\* initializeFreshSystem up to the hash: the organization, then the built-in
\* roles, whose codes are taken once, then the checks of the user's names.

\* Mutant: a setup takes the built-in roles as it finds them.
AnyRoles == TRUE

RolesAreFree == ~system.roles
NamesAreFree(q) == AdministratorOf[q] \notin system.users

BeginSetup(q) ==
  /\ setup[q] = "new"
  /\ system.initialized = {} /\ OrganizationOf[q] \notin system.organizations
  /\ system' = [system EXCEPT !.organizations = @ \cup {OrganizationOf[q]}, !.roles = TRUE]
  /\ Enters(q, IF RolesAreFree /\ NamesAreFree(q) THEN "hashing" ELSE "refused")
  /\ UNCHANGED <<saved, mishaps>>

\* Initialized already, or the organization's code is taken.
RefuseSetup(q) ==
  /\ setup[q] = "new"
  /\ system.initialized # {} \/ OrganizationOf[q] \in system.organizations
  /\ Enters(q, "refused")
  /\ UNCHANGED <<system, saved, mishaps>>

FinishSetup(q) ==
  /\ setup[q] = "hashing"
  /\ system' = [system EXCEPT !.users = @ \cup {AdministratorOf[q]}, !.initialized = {q}]
  /\ Enters(q, "saving")
  /\ UNCHANGED <<saved, mishaps>>

\* Scope "all", in one transaction.
SaveSetup(q) ==
  /\ setup[q] = "saving"
  /\ saved' = system
  /\ Enters(q, "bootstrapping")
  /\ UNCHANGED <<system, mishaps>>

FailToSave(q) ==
  /\ setup[q] = "saving" /\ mishaps.saves < MaxSetupSaveFailures
  /\ mishaps' = [mishaps EXCEPT !.saves = @ + 1]
  /\ Enters(q, "failed")
  /\ UNCHANGED <<system, saved>>

\* The modules are accepted, or not: the system is initialized all the same.
Bootstrap(q) ==
  /\ setup[q] = "bootstrapping"
  /\ \/ Enters(q, "answered")
     \/ Enters(q, "failed")
  /\ UNCHANGED <<system, saved, mishaps>>

\* Once the memory is initialized the administrator works, and each operation
\* saves its own tables alone, whatever the others hold.
Work ==
  /\ system.initialized # {}
  /\ saved' \in {[saved EXCEPT !.users = system.users],
                 [saved EXCEPT !.organizations = system.organizations],
                 [saved EXCEPT !.roles = system.roles]}
  /\ UNCHANGED <<system, setup, mishaps>>

RestartSetup ==
  /\ mishaps.restarts < MaxSetupRestarts
  /\ mishaps' = [mishaps EXCEPT !.restarts = @ + 1]
  /\ system' = saved
  /\ setup' = [q \in Setups |-> IF setup[q] \in {"hashing", "saving", "bootstrapping"}
                                THEN "failed" ELSE setup[q]]
  /\ UNCHANGED saved

SetupNext ==
  \/ \E q \in Setups : \/ BeginSetup(q) \/ RefuseSetup(q) \/ FinishSetup(q)
                       \/ SaveSetup(q) \/ FailToSave(q) \/ Bootstrap(q)
  \/ Work \/ RestartSetup

SetupSpec == SetupInit /\ [][SetupNext]_setupVars

-----------------------------------------------------------------------------
(* Properties.                                                              *)

\* Whatever overlaps, fails and restarts, one setup at most is answered; the
\* others do not take its place in the database.
SetupHappensOnce ==
  /\ Cardinality({q \in Setups : setup[q] = "answered"}) <= 1
  /\ \A q \in Setups : setup[q] \in {"bootstrapping", "answered"} => saved.initialized = {q}

\* A database that says it is initialized has the organization, the roles and
\* the administrator of that setup: half a setup is never taken for one.
InitializedIsWhole ==
  \A store \in {system, saved} : \A q \in store.initialized :
    /\ OrganizationOf[q] \in store.organizations /\ store.roles
    /\ AdministratorOf[q] \in store.users

\* One whole setup, whatever fails.
SetupIsAtomic == SetupTypeOK /\ SetupHappensOnce /\ InitializedIsWhole
=============================================================================
