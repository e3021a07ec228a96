---------------------------- MODULE ReportingLines ----------------------------
(***************************************************************************)
(* Whom a position reports to, and who supervises an employee.             *)
(*                                                                         *)
(* A position reports to the head of its department: two hooks of the      *)
(* schema see to that whenever a position is written, and nothing else     *)
(* does, not even a new head.  An employee's supervisor is a copy of what  *)
(* the employee's position reported to.  Organization has the records of   *)
(* the assignments and the requests to change the structure, which are     *)
(* left out here.  A candidate who is converted brings a position along,   *)
(* and no supervisor.  wasIn, headed and held are history; lineOps bounds  *)
(* the exploration.                                                        *)
(***************************************************************************)
EXTENDS Integers, Handlers

CONSTANTS
    Post,       \* identifiers of positions
    Unit,       \* departments
    Staff,      \* employees, and candidates who may become some
    MaxLineOps  \* bound on the requests that are handled

VARIABLES
    posts,      \* the position with an identifier, or NULL
    heads,      \* the position that heads each department, or NULL
    staff,      \* the position of each employee, and the supervisor's
    onStaff,    \* those who have a profile
    lineCalls,  \* the handlers in flight
    wasIn,      \* history: the departments that each position was in
    headed,     \* history: the positions that headed each department
    held,       \* history: the positions that each employee held
    lineOps     \* the requests that were handled or are in flight

lineDocs == <<posts, heads, staff, onStaff, wasIn, headed, held>>

lineVars == <<lineDocs, lineCalls, lineOps>>

MaybePost == Post \cup {NULL}

PostDoc == [unit : Unit, reportsTo : MaybePost, isActive : BOOLEAN]

StaffDoc == [post : MaybePost, supervisor : MaybePost]

\* A "move" is an update that names the department.  read: what the position
\* reported to at first; above: what it, or its holder, is to report to.
LineCall ==
    [at : {"insert", "unit", "head", "save", "propagate", "assign.profile",
           "hold.head", "hold.profile", "remove.unset", "remove.delete"},
     for : {"create", "update", "move", "deactivate", "assign", "hold", "remove"},
     post : MaybePost, who : Staff \cup {NULL}, unit : Unit \cup {NULL},
     read : MaybePost, above : MaybePost]

ASSUME ReportingLinesAssumption ==
    /\ MaxLineOps \in Nat
    /\ NULL \notin Post \cup Unit \cup Staff \cup PostDoc \cup LineCall

Present(p) == posts[p] # NULL

\* The call that a request for a position begins with.
Call(where, purpose, p, e, u, above) ==
    [at |-> where, for |-> purpose, post |-> p, who |-> e, unit |-> u,
     read |-> posts[p].reportsTo, above |-> above]

Starts(a, call) ==
    /\ Idle(lineCalls, a)
    /\ lineCalls' = Begin(lineCalls, a, call)
    /\ UNCHANGED lineDocs

-----------------------------------------------------------------------------
(* The hook of findOneAndUpdate, and the update that follows it.           *)

\* Mutant: a position may be its own head.
HeadAlone(p, u) == heads[u]

\* The head of a department, unless it is the position itself.
HeadAbove(p, u) == IF heads[u] = p THEN NULL ELSE heads[u]

\* What follows an update: an assignment goes on even if it updated nothing.
Proceeds(call) ==
    IF call.for = "assign"
    THEN [call EXCEPT !.at = "assign.profile", !.above = call.read] ELSE NULL

HookReadUnit(a) ==
    /\ At(lineCalls, a, "unit")
    /\ LET call == lineCalls[a]
       IN  lineCalls' = Begin(lineCalls, a,
             IF Present(call.post)
             THEN [call EXCEPT !.at = "head", !.unit = posts[call.post].unit]
             ELSE Proceeds(call))
    /\ UNCHANGED lineDocs

HookReadHead(a) ==
    /\ At(lineCalls, a, "head")
    /\ LET call == lineCalls[a]
       IN  lineCalls' = Begin(lineCalls, a,
             [call EXCEPT !.at = "save", !.above = HeadAbove(call.post, call.unit)])
    /\ UNCHANGED lineDocs

\* An update drops what is undefined: with nobody to report to, a position goes
\* on reporting to whom it did.
Written(doc, call, isActive) ==
    [unit      |-> IF call.for = "move" THEN call.unit ELSE doc.unit,
     reportsTo |-> IF call.above = NULL THEN doc.reportsTo ELSE call.above,
     isActive  |-> CASE call.for = "deactivate" -> FALSE
                     [] call.for \in {"update", "move"} -> IF isActive = NULL THEN doc.isActive ELSE isActive
                     [] OTHER -> TRUE]

\* The holders of a position hear of whom it reports to now, if that is new.
Follows(call, new) ==
    IF call.for \in {"update", "move"} /\ new.reportsTo # call.read
    THEN [call EXCEPT !.at = "propagate", !.above = new.reportsTo] ELSE Proceeds(call)

HookSave(a, isActive) ==
    /\ At(lineCalls, a, "save")
    /\ LET call == lineCalls[a]
           new  == Written(posts[call.post], call, isActive)
       IN  IF Present(call.post)
           THEN /\ posts' = [posts EXCEPT ![call.post] = new]
                /\ wasIn' = wasIn \cup {<<call.post, new.unit>>}
                /\ lineCalls' = Begin(lineCalls, a, Follows(call, new))
           ELSE /\ lineCalls' = Begin(lineCalls, a, Proceeds(call))
                /\ UNCHANGED <<posts, wasIn>>
    /\ UNCHANGED <<heads, staff, onStaff, headed, held>>

-----------------------------------------------------------------------------
(* Positions and departments.                                              *)

CreatePost(a, u) ==
    Starts(a, [at |-> "insert", for |-> "create", post |-> NULL, who |-> NULL, unit |-> u,
               read |-> NULL, above |-> heads[u]])

\* Mutant: a position reports to whom the request names.
InsertAsAsked(a, p, isActive) ==
    /\ At(lineCalls, a, "insert")
    /\ \A u \in Unit : <<p, u>> \notin wasIn
    /\ \E asked \in {q \in Post : Present(q)} \cup {lineCalls[a].above} :
         posts' = [posts EXCEPT ![p] =
           [unit |-> lineCalls[a].unit, reportsTo |-> asked, isActive |-> isActive]]
    /\ wasIn' = wasIn \cup {<<p, lineCalls[a].unit>>}
    /\ lineCalls' = Finish(lineCalls, a)
    /\ UNCHANGED <<heads, staff, onStaff, headed, held>>

\* An identifier is used once.
InsertPost(a, p, isActive) ==
    /\ At(lineCalls, a, "insert")
    /\ \A u \in Unit : <<p, u>> \notin wasIn
    /\ posts' = [posts EXCEPT ![p] =
         [unit |-> lineCalls[a].unit, reportsTo |-> lineCalls[a].above, isActive |-> isActive]]
    /\ wasIn' = wasIn \cup {<<p, lineCalls[a].unit>>}
    /\ lineCalls' = Finish(lineCalls, a)
    /\ UNCHANGED <<heads, staff, onStaff, headed, held>>

\* to is NULL when the update leaves the department alone.
UpdatePost(a, p, to) ==
    /\ Present(p)
    /\ Starts(a, IF to = NULL
                 THEN Call("unit", "update", p, NULL, NULL, NULL)
                 ELSE Call("head", "move", p, NULL, to, NULL))

Propagate(a) ==
    /\ At(lineCalls, a, "propagate")
    /\ staff' = [e \in Staff |->
         IF staff[e].post = lineCalls[a].post
         THEN [staff[e] EXCEPT !.supervisor = lineCalls[a].above] ELSE staff[e]]
    /\ lineCalls' = Finish(lineCalls, a)
    /\ UNCHANGED <<posts, heads, onStaff, wasIn, headed, held>>

DeactivatePost(a, p) ==
    /\ Present(p)
    /\ Starts(a, Call("unit", "deactivate", p, NULL, NULL, NULL))

\* Any position may become the head, or none.  No position is written.
UpdateUnit(u, p) ==
    /\ p # NULL => Present(p)
    /\ heads' = [heads EXCEPT ![u] = p]
    /\ headed' = IF p = NULL THEN headed ELSE headed \cup {<<u, p>>}
    /\ UNCHANGED <<posts, staff, onStaff, lineCalls, wasIn, held>>

RemovePost(a, p) ==
    /\ Present(p)
    /\ Starts(a, Call("remove.unset", "remove", p, NULL, NULL, NULL))

\* Whoever holds the position loses it, and keeps the supervisor.
RemovePostUnset(a) ==
    /\ At(lineCalls, a, "remove.unset")
    /\ staff' = [e \in Staff |->
         IF staff[e].post = lineCalls[a].post THEN [staff[e] EXCEPT !.post = NULL] ELSE staff[e]]
    /\ lineCalls' = [lineCalls EXCEPT ![a].at = "remove.delete"]
    /\ UNCHANGED <<posts, heads, onStaff, wasIn, headed, held>>

\* Positions and departments that refer to it go on doing so.
RemovePostDelete(a) ==
    /\ At(lineCalls, a, "remove.delete")
    /\ posts' = [posts EXCEPT ![lineCalls[a].post] = NULL]
    /\ lineCalls' = Finish(lineCalls, a)
    /\ UNCHANGED <<heads, staff, onStaff, wasIn, headed, held>>

-----------------------------------------------------------------------------
(* Employees.                                                              *)

\* assignPosition: the supervisor is what the position reported to when it was
\* read, before its activation.
AssignPost(a, e, p) ==
    /\ Present(p)
    /\ Starts(a, IF posts[p].isActive
                 THEN Call("assign.profile", "assign", p, e, NULL, posts[p].reportsTo)
                 ELSE Call("unit", "assign", p, e, NULL, NULL))

\* With no such employee the handler throws, as LineCallFails has it.
AssignPostProfile(a) ==
    /\ At(lineCalls, a, "assign.profile")
    /\ lineCalls[a].who \in onStaff
    /\ LET call == lineCalls[a]
       IN  /\ staff' = [staff EXCEPT ![call.who] = [post |-> call.post, supervisor |-> call.above]]
           /\ held' = held \cup {<<call.who, call.post>>}
    /\ lineCalls' = Finish(lineCalls, a)
    /\ UNCHANGED <<posts, heads, onStaff, wasIn, headed>>

\* The employee service's updatePosition, which looks for the head itself when
\* the position reports to nobody.
HoldPost(a, e, p) ==
    /\ Present(p)
    /\ ~ posts[p].isActive
    /\ Starts(a, IF posts[p].reportsTo = NULL
                 THEN Call("hold.head", "hold", p, e, posts[p].unit, NULL)
                 ELSE Call("hold.profile", "hold", p, e, NULL, posts[p].reportsTo))

HoldReadHead(a) ==
    /\ At(lineCalls, a, "hold.head")
    /\ LET call == lineCalls[a]
       IN  lineCalls' = Begin(lineCalls, a,
             [call EXCEPT !.at = "hold.profile", !.above = HeadAbove(call.post, call.unit)])
    /\ UNCHANGED lineDocs

\* With nobody to report to, the supervisor stays.
HoldPostProfile(a) ==
    /\ At(lineCalls, a, "hold.profile")
    /\ lineCalls[a].who \in onStaff
    /\ LET call == lineCalls[a]
       IN  /\ staff' = [staff EXCEPT ![call.who] =
                [post |-> call.post,
                 supervisor |-> IF call.above = NULL THEN @.supervisor ELSE call.above]]
           /\ held' = held \cup {<<call.who, call.post>>}
    /\ lineCalls' = [lineCalls EXCEPT ![a].at = "unit"]
    /\ UNCHANGED <<posts, heads, onStaff, wasIn, headed>>

\* convertCandidateToEmployee, with the position that the candidate names, if any.
ConvertToStaff(e, p) ==
    /\ e \notin onStaff
    /\ p = NULL \/ \E u \in Unit : <<p, u>> \in wasIn
    /\ staff' = [staff EXCEPT ![e] = [post |-> p, supervisor |-> NULL]]
    /\ onStaff' = onStaff \cup {e}
    /\ held' = held \cup ({<<e, p>>} \ {<<e, NULL>>})
    /\ UNCHANGED <<posts, heads, lineCalls, wasIn, headed>>

-----------------------------------------------------------------------------

\* A database call throws, or the process stops.
LineCallFails(a) ==
    /\ ~ Idle(lineCalls, a)
    /\ lineCalls' = Finish(lineCalls, a)
    /\ UNCHANGED lineDocs

LinesInit ==
    /\ posts = [p \in Post |-> NULL]
    /\ heads = [u \in Unit |-> NULL]
    /\ staff = [e \in Staff |-> [post |-> NULL, supervisor |-> NULL]]
    /\ onStaff \in SUBSET Staff
    /\ lineCalls = [a \in Agent |-> NULL]
    /\ wasIn = {}
    /\ headed = {}
    /\ held = {}
    /\ lineOps = 0

RequestLine ==
    \/ \E u \in Unit, p \in MaybePost : UpdateUnit(u, p)
    \/ \E e \in Staff, p \in MaybePost : ConvertToStaff(e, p)
    \/ \E a \in Agent :
         \/ \E u \in Unit : CreatePost(a, u)
         \/ \E p \in Post :
              \/ \E to \in Unit \cup {NULL} : UpdatePost(a, p, to)
              \/ DeactivatePost(a, p)
              \/ RemovePost(a, p)
              \/ \E e \in Staff : AssignPost(a, e, p) \/ HoldPost(a, e, p)

LineStep(a) ==
    \/ HookReadUnit(a) \/ HookReadHead(a)
    \/ \E isActive \in BOOLEAN \cup {NULL} : HookSave(a, isActive)
    \/ \E p \in Post, isActive \in BOOLEAN : InsertPost(a, p, isActive)
    \/ Propagate(a)
    \/ RemovePostUnset(a) \/ RemovePostDelete(a)
    \/ AssignPostProfile(a)
    \/ HoldReadHead(a) \/ HoldPostProfile(a)
    \/ LineCallFails(a)

LinesNext ==
    \/ /\ lineOps < MaxLineOps
       /\ lineOps' = lineOps + 1
       /\ RequestLine
    \/ /\ lineOps' = lineOps
       /\ \E a \in Agent : LineStep(a)

LinesSpec == LinesInit /\ [][LinesNext]_lineVars

-----------------------------------------------------------------------------
(* Properties.                                                             *)

\* Every document, call in flight and history has its type.
LinesTypeOK ==
    /\ posts \in [Post -> PostDoc \cup {NULL}]
    /\ heads \in [Unit -> MaybePost]
    /\ staff \in [Staff -> StaffDoc]
    /\ onStaff \subseteq Staff
    /\ lineCalls \in [Agent -> LineCall \cup {NULL}]
    /\ wasIn \subseteq Post \X Unit
    /\ headed \subseteq Unit \X Post
    /\ held \subseteq Staff \X Post
    /\ lineOps \in 0..MaxLineOps

\* The position headed a department that the other was in.
WasAbove(h, p) == \E u \in Unit : <<p, u>> \in wasIn /\ <<u, h>> \in headed

\* An employee's supervisor is, or was, the head of a department that one of the
\* employee's positions is, or was, in: whatever a request names, and however
\* positions move and heads change while an employee is given a position.
SupervisorWasHead ==
    \A e \in Staff :
      staff[e].supervisor # NULL =>
        \E p \in Post : <<e, p>> \in held /\ WasAbove(staff[e].supervisor, p)

Active == {p \in Post : Present(p) /\ posts[p].isActive}

\* Every department ever had one head at most, which never was in another.
HeadsAreSettled ==
    \A u \in Unit, h, g \in Post, v \in Unit :
      <<u, h>> \in headed =>
        /\ <<u, g>> \in headed => g = h
        /\ <<h, v>> \in wasIn => v = u

\* As long as heads are settled the active positions are a forest, as the comment
\* on getOrganizationHierarchy has it: no set of them report only to each other,
\* which would be missing from that hierarchy and would keep getUserHierarchy
\* from ending.  A second head of a department is enough to make such a set.
SettledHeadsMakeTrees ==
    HeadsAreSettled =>
      \A S \in SUBSET Active : S # {} => \E p \in S : posts[p].reportsTo \notin S

=============================================================================
