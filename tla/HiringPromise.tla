---------------------------- MODULE HiringPromise ----------------------------
(***************************************************************************)
(* What the hiring pipeline promises, without requests, failures, files or *)
(* candidate statuses: the order in which the facts of a hire come about,  *)
(* and that each comes about once.                                         *)
(***************************************************************************)
EXTENDS Naturals

CONSTANTS
    Candidate,
    Contract,
    NoParty     \* not a candidate

VARIABLES
    party,          \* the candidate a contract was drawn up for
    signed,         \* contracts the employee has signed
    employed,       \* candidates with an employee profile
    countersigned,  \* contracts the employer has signed
    onboarded,      \* onboarding task lists made for each new employee
    paid            \* signing bonuses granted to each new employee

promiseVars == <<party, signed, employed, countersigned, onboarded, paid>>

Hired(p) == \E c \in countersigned : party[c] = p

PromiseInit ==
    /\ party = [c \in Contract |-> NoParty]
    /\ signed = {}
    /\ employed = {}
    /\ countersigned = {}
    /\ onboarded = [p \in Candidate |-> 0]
    /\ paid = [p \in Candidate |-> 0]

DrawUp(c, p) ==
    /\ party[c] = NoParty
    /\ party' = [party EXCEPT ![c] = p]
    /\ UNCHANGED <<signed, employed, countersigned, onboarded, paid>>

EmployeeSigns(c) ==
    /\ party[c] # NoParty
    /\ signed' = signed \cup {c}
    /\ UNCHANGED <<party, employed, countersigned, onboarded, paid>>

Employ(p) ==
    /\ p \notin employed
    /\ employed' = employed \cup {p}
    /\ UNCHANGED <<party, signed, countersigned, onboarded, paid>>

\* The employer signs once per candidate, after the employee, who is one by then.
Countersign(c) ==
    /\ c \in signed
    /\ party[c] \in employed
    /\ ~ Hired(party[c])
    /\ countersigned' = countersigned \cup {c}
    /\ UNCHANGED <<party, signed, employed, onboarded, paid>>

Onboard(p) ==
    /\ Hired(p)
    /\ onboarded[p] = 0
    /\ onboarded' = [onboarded EXCEPT ![p] = 1]
    /\ UNCHANGED <<party, signed, employed, countersigned, paid>>

GrantBonus(p) ==
    /\ onboarded[p] = 1
    /\ paid[p] = 0
    /\ paid' = [paid EXCEPT ![p] = 1]
    /\ UNCHANGED <<party, signed, employed, countersigned, onboarded>>

PromiseNext ==
    \/ \E c \in Contract, p \in Candidate : DrawUp(c, p)
    \/ \E c \in Contract : EmployeeSigns(c) \/ Countersign(c)
    \/ \E p \in Candidate : Employ(p) \/ Onboard(p) \/ GrantBonus(p)

PromiseSpec == PromiseInit /\ [][PromiseNext]_promiseVars
=============================================================================
