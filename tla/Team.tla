-------------------------------- MODULE Team --------------------------------
(***************************************************************************)
(* Who belongs to a workspace and in which role (migration 0035, team.ts): *)
(* owners invite members, change their roles and remove them, each in one  *)
(* function of the database; an operator changes memberships in SQL.       *)
(*                                                                         *)
(* A function asks whether its caller is an owner, takes the workspace's   *)
(* team lock, reads and counts, and commits: the caller may lose the       *)
(* ownership while it waits, and what is not under the lock (a connection  *)
(* or an email address that comes to act as a member, an operator's change *)
(* of somebody who is no owner) may change between the count and the       *)
(* commit.                                                                 *)
(*                                                                         *)
(* Left out: addresses, names and the audit rows of the changes.           *)
(***************************************************************************)
EXTENDS Naturals, FiniteSets

CONSTANTS
    Members,       \* people who are or may become members
    FirstRole,     \* their roles at the start, "none" outside the workspace
    NewRoles,      \* the roles asked for, of membership_role
    MaxTeamSteps   \* bound: changes begun, by members or an operator

WRITERS == {"owner", "approver", "analyst"}
ROLES == WRITERS \cup {"read_only", "accountant_guest"}
None == "none"
Nobody == "nobody"

ASSUME TeamAssumption ==
    /\ FirstRole \in [Members -> ROLES \cup {None}]
    /\ NewRoles \subseteq ROLES /\ Nobody \notin Members /\ MaxTeamSteps \in Nat
    /\ IsFiniteSet(Members)

VARIABLES
    role,      \* memberships.role, "none" where there is no row
    acts,      \* whom the ledger connection and the live email address act as
    changes,   \* calls past the owner check, waiting for the lock or holding it
    teamSteps, \* changes begun
    operated   \* whether an operator changed a membership

teamVars == <<role, acts, changes, teamSteps, operated>>

TeamInit ==
    /\ role = FirstRole
    /\ acts = [what \in {"ledger", "email"} |-> Nobody]
    /\ changes = {} /\ teamSteps = 0 /\ operated = FALSE

isOwner(u) == role[u] = "owner"
writers == {m \in Members : role[m] \in WRITERS}

begins == teamSteps < MaxTeamSteps /\ teamSteps' = teamSteps + 1

\* team_owner_org, evaluated as the function starts: invite, change a role, or remove (to "none").
asks(u, act, m, to) ==
    /\ isOwner(u) /\ begins
    /\ (act = "remove") <=> (to = None)
    /\ changes' = changes \cup {[act |-> act, of |-> m, to |-> to, counted |-> FALSE]}
    /\ UNCHANGED <<role, acts, operated>>

\* Mutant: nothing is locked while a change is counted.
NoTeamLock == TRUE

\* pg_advisory_xact_lock on the team: held from the count to the commit.
teamLockFree == \A q \in changes : ~q.counted

\* membership_keeps_an_owner, counting after the row is gone.
keepsAnOwner(m, to) == isOwner(m) /\ to # "owner" => \E o \in Members \ {m} : isOwner(o)

mayInvite(q) == role[q.of] = None

\* change_member_role and remove_member refuse alike.
mayChange(q) ==
    /\ role[q.of] \notin {None, q.to}
    /\ q.to # "owner" => acts["ledger"] # q.of
    /\ q.to \notin WRITERS => acts["email"] # q.of
    /\ q.of \in writers /\ q.to \notin WRITERS => Cardinality(writers \ {q.of}) >= 2
    /\ keepsAnOwner(q.of, q.to)

admitted(q) == IF q.act = "invite" THEN mayInvite(q) ELSE mayChange(q)

\* The lock is taken, the row locked, the rules asked.
counts(q) ==
    /\ teamLockFree /\ admitted(q)
    /\ changes' = (changes \ {q}) \cup {[q EXCEPT !.counted = TRUE]}
    /\ UNCHANGED <<role, acts, teamSteps, operated>>

\* A refusal, or a change to the role held already: nothing is written.
refuses(q) ==
    /\ teamLockFree /\ ~admitted(q)
    /\ changes' = changes \ {q}
    /\ UNCHANGED <<role, acts, teamSteps, operated>>

commits(q) ==
    /\ q.counted
    /\ role' = [role EXCEPT ![q.of] = q.to]
    /\ changes' = changes \ {q}
    /\ UNCHANGED <<acts, teamSteps, operated>>

\* An operator's own update or delete: only the trigger, which takes the lock for an owner's row.
operatorChanges(m, to) ==
    /\ begins
    /\ role[m] \notin {None, to}
    /\ \A q \in changes : q.counted => q.of # m
    /\ isOwner(m) /\ to # "owner" => teamLockFree
    /\ keepsAnOwner(m, to)
    /\ role' = [role EXCEPT ![m] = to] /\ operated' = TRUE
    /\ UNCHANGED <<acts, changes>>

\* An owner connects the ledger or adopts the address, or lets it go: outside the team lock.
takesOver(u, what, holder) ==
    /\ isOwner(u) /\ begins
    /\ holder \in {u, Nobody} /\ acts[what] # holder
    /\ acts' = [acts EXCEPT ![what] = holder]
    /\ UNCHANGED <<role, changes, operated>>

TeamNext ==
    \/ \E u, m \in Members, act \in {"invite", "change", "remove"}, to \in NewRoles \cup {None} :
          asks(u, act, m, to)
    \/ \E q \in changes : counts(q) \/ refuses(q) \/ commits(q)
    \/ \E m \in Members, to \in NewRoles \cup {None} : operatorChanges(m, to)
    \/ \E u \in Members, what \in {"ledger", "email"}, h \in Members \cup {Nobody} : takesOver(u, what, h)

-----------------------------------------------------------------------------
(* Properties *)

\* Migration 0035: however two owners' changes overlap, with each other's and with an operator's, the
\* workspace keeps an owner; and unless an operator changed it, two people who can write, so that one
\* can approve what the other prepared.
WorkspaceCanWork ==
    /\ \E m \in Members : isOwner(m)
    /\ ~operated => Cardinality(writers) >= 2

=============================================================================
