------------------------ MODULE ReimbursementsProofs -------------------------
(***************************************************************************)
(* The safety of reimbursements, for any number of disputes, claims,       *)
(* amounts and overlapping handlers.                                       *)
(*                                                                         *)
(* The argument.  What the documents say is consistent at every moment     *)
(* (Books): each save writes the status, the comment and the amount that   *)
(* belong together.  A handler that is past its checks carries what they   *)
(* established (Sound).  The document it read may have changed since, but  *)
(* not what matters: a filed item stays filed, a claim keeps the amount it *)
(* asks for, an approved amount is never taken back from granted, and only *)
(* the handler itself adds to its own refunds (Kept).                      *)
(***************************************************************************)
EXTENDS Reimbursements, SequenceTheorems, TLAPS

\* What the documents say, whatever handlers are in flight.
Books ==
    /\ \A c \in Claim : Filed(c) => claimed[c] # NULL
    /\ \A i \in Item :
         HasStatus(i, "pending payroll Manager approval") => docs[i].approved # NULL
    /\ \A i \in Item : HasStatus(i, "approved") => docs[i].approved \in granted[i]
    /\ \A c \in Claim : granted[c] # {} => Filed(c)
    /\ \A c \in Claim : \A amount \in granted[c] : amount <= claimed[c]

\* What a handler at each of its steps has established.
Sound(a, call) ==
    /\ call.at # "dispute.save" => Filed(call.item)
    /\ call.at = "approve.save" => Affordable(call.item, call.amount)
    /\ call.at = "confirm.save" =>
         /\ docs[call.item].approved # NULL
         /\ call.amount # NULL => Affordable(call.item, call.amount)
    /\ call.at = "refund.look" => call.amount \in granted[call.item]
    /\ call.at = "refund.save" =>
         /\ Authorised(call.item, call.amount)
         /\ Affordable(call.item, call.amount)
         /\ call.amount > 0
         /\ refunds[call.item][a] = <<>>

CallsSound == \A a \in Agent : calls[a] # NULL => Sound(a, calls[a])

State == TypeOK /\ Books /\ SignedAsStatusSays /\ RefundsAreAuthorised
         /\ WithinClaim /\ OneRefundEach

Inv == State /\ CallsSound

\* What no step takes back from handler b, unless b takes it itself.
Kept(b) ==
    /\ \A i \in Item : Filed(i) =>
         /\ docs'[i] # NULL
         /\ docs[i].approved # NULL => docs'[i].approved # NULL
    /\ \A c \in Claim : Filed(c) => claimed'[c] = claimed[c]
    /\ \A i \in Item : granted[i] \subseteq granted'[i]
    /\ \A i \in Item : refunds'[i][b] = refunds[i][b]

-----------------------------------------------------------------------------
(* What a call carries, and how calls change.                              *)

LEMMA CallFields ==
  ASSUME NEW call \in Call
  PROVE  /\ call.item \in Item
         /\ call.at = "dispute.save" => call.item \in Dispute /\ call.payslip \in Payslip
         /\ call.at \in {"approve.save", "refund.save"} => call.amount \in Amount
         /\ call.at \in {"confirm.save", "refund.look"} => call.amount \in Amount \cup {NULL}
BY DEF Call, Item

LEMMA SoundStays ==
  ASSUME TypeOK, NEW b \in Agent, Kept(b), NEW call \in Call, Sound(b, call)
  PROVE  Sound(b, call)'
<1>1. call.item \in Item
  BY CallFields
<1>2. call.item \in Claim /\ Filed(call.item) => claimed'[call.item] = claimed[call.item]
  BY DEF Kept
<1>3. call.at # "dispute.save" => Filed(call.item)'
  BY <1>1 DEF Sound, Kept, Filed
<1>4. call.at = "approve.save" => Affordable(call.item, call.amount)'
  BY <1>1, <1>2 DEF Sound, Affordable
<1>5. call.at = "confirm.save" =>
        /\ docs'[call.item].approved # NULL
        /\ call.amount # NULL => Affordable(call.item, call.amount)'
  BY <1>1, <1>2 DEF Sound, Affordable, Kept
<1>6. call.at = "refund.look" => call.amount \in granted'[call.item]
  BY <1>1 DEF Sound, Kept
<1>7. call.at = "refund.save" =>
        /\ Authorised(call.item, call.amount)'
        /\ Affordable(call.item, call.amount)'
        /\ call.amount > 0
        /\ refunds'[call.item][b] = <<>>
  BY <1>1, <1>2 DEF Sound, Affordable, Authorised, Kept
<1> QED BY <1>3, <1>4, <1>5, <1>6, <1>7 DEF Sound

LEMMA CallsAfterBegin ==
  ASSUME TypeOK, CallsSound, NEW a \in Agent, \A b \in Agent \ {a} : Kept(b), NEW call \in Call,
         Begin(a, call), Sound(a, call)'
  PROVE  CallsSound' /\ calls' \in [Agent -> Call \cup {NULL}]
<1>1. /\ calls'[a] = call
      /\ \A b \in Agent \ {a} : calls'[b] = calls[b]
      /\ calls' \in [Agent -> Call \cup {NULL}]
  BY DEF Begin, TypeOK
<1>2. ASSUME NEW b \in Agent, calls'[b] # NULL PROVE Sound(b, calls[b])'
  <2>1. CASE b = a
    BY <1>1, <2>1 DEF Sound
  <2>2. CASE b # a
    <3>1. PICK other \in Call : other = calls[b]
      BY <1>1, <1>2, <2>2 DEF TypeOK
    <3>2. Sound(b, other)
      BY <1>1, <1>2, <2>2, <3>1 DEF CallsSound
    <3>3. Sound(b, other)'
      BY <2>2, <3>2, SoundStays
    <3> QED BY <1>1, <2>2, <3>1, <3>3 DEF Sound
  <2> QED BY <2>1, <2>2
<1> QED BY <1>1, <1>2 DEF CallsSound

LEMMA CallsAfterFinish ==
  ASSUME TypeOK, CallsSound, NEW a \in Agent, \A b \in Agent \ {a} : Kept(b), Finish(a)
  PROVE  CallsSound' /\ calls' \in [Agent -> Call \cup {NULL}]
<1>1. /\ calls'[a] = NULL
      /\ \A b \in Agent \ {a} : calls'[b] = calls[b]
      /\ calls' \in [Agent -> Call \cup {NULL}]
  BY DEF Finish, TypeOK
<1>2. ASSUME NEW b \in Agent, calls'[b] # NULL PROVE Sound(b, calls[b])'
  <2>1. b # a
    BY <1>1, <1>2
  <2>2. PICK other \in Call : other = calls[b]
    BY <1>1, <1>2, <2>1 DEF TypeOK
  <2>3. Sound(b, other)
    BY <1>1, <1>2, <2>1, <2>2 DEF CallsSound
  <2>4. Sound(b, other)'
    BY <2>1, <2>3, SoundStays
  <2> QED BY <1>1, <2>1, <2>2, <2>4 DEF Sound
<1> QED BY <1>1, <1>2 DEF CallsSound

LEMMA CallsStay ==
  ASSUME TypeOK, CallsSound, \A b \in Agent : Kept(b), calls' = calls
  PROVE  CallsSound'
<1> SUFFICES ASSUME NEW b \in Agent, calls[b] # NULL PROVE Sound(b, calls[b])'
  BY DEF CallsSound
<1>1. PICK call \in Call : call = calls[b]
  BY DEF TypeOK
<1>2. Sound(b, call)
  BY <1>1 DEF CallsSound
<1>3. Sound(b, call)'
  BY <1>2, SoundStays
<1> QED BY <1>1, <1>3 DEF Sound

\* A step that changes nothing but the calls.
LEMMA QuietStep ==
  ASSUME State, UNCHANGED <<docs, filedVars, refunds, granted>>
  PROVE  (\A b \in Agent : Kept(b)) /\ (calls' \in [Agent -> Call \cup {NULL}] => State')
<1> docs' = docs /\ payslipOf' = payslipOf /\ claimed' = claimed
      /\ refunds' = refunds /\ granted' = granted
  BY DEF filedVars
<1>1. \A b \in Agent : Kept(b)
  BY DEF Kept, Filed
<1>2. calls' \in [Agent -> Call \cup {NULL}] => TypeOK'
  BY DEF State, TypeOK
<1>3. Books' /\ SignedAsStatusSays'
  BY DEF State, Books, SignedAsStatusSays, Filed, HasStatus
<1>4. RefundsAreAuthorised' /\ WithinClaim' /\ OneRefundEach'
  BY DEF State, RefundsAreAuthorised, WithinClaim, OneRefundEach, Authorised, Affordable, Filed
<1> QED BY <1>1, <1>2, <1>3, <1>4 DEF State

LEMMA QuietBegin ==
  ASSUME Inv, NEW a \in Agent, NEW call \in Call, Begin(a, call), Sound(a, call),
         UNCHANGED <<docs, filedVars, refunds, granted>>
  PROVE  Inv'
<1>1. Sound(a, call)'
  BY DEF Sound, filedVars, Filed, Affordable, Authorised
<1>2. \A b \in Agent : Kept(b)
  BY QuietStep DEF Inv
<1>3. CallsSound' /\ calls' \in [Agent -> Call \cup {NULL}]
  BY <1>1, <1>2, CallsAfterBegin DEF Inv, State
<1> QED BY <1>3, QuietStep DEF Inv

LEMMA QuietFinish ==
  ASSUME Inv, NEW a \in Agent, Finish(a), UNCHANGED <<docs, filedVars, refunds, granted>>
  PROVE  Inv'
<1>1. \A b \in Agent : Kept(b)
  BY QuietStep DEF Inv
<1>2. CallsSound' /\ calls' \in [Agent -> Call \cup {NULL}]
  BY <1>1, CallsAfterFinish DEF Inv, State
<1> QED BY <1>2, QuietStep DEF Inv

-----------------------------------------------------------------------------
(* The steps that read, check and begin to write.                          *)

LEMMA CreateDisputeStep ==
  ASSUME Inv, NEW a \in Agent, NEW d \in Dispute, NEW p \in Payslip, CreateDispute(a, d, p)
  PROVE  Inv'
<1> DEFINE call == [at |-> "dispute.save", item |-> d, payslip |-> p]
<1>1. call \in Call /\ Sound(a, call)
  BY DEF Call, Sound
<1>2. Begin(a, call) /\ UNCHANGED <<docs, filedVars, refunds, granted>>
  BY DEF CreateDispute
<1> HIDE DEF call
<1> QED BY <1>1, <1>2, QuietBegin

LEMMA ApproveStep ==
  ASSUME Inv, NEW a \in Agent, NEW i \in Item, NEW amount \in Amount, Approve(a, i, amount)
  PROVE  Inv'
<1> DEFINE call == [at |-> "approve.save", item |-> i, amount |-> amount]
<1>1. call \in Call /\ Sound(a, call)
  BY DEF Call, Sound, Approve, HasStatus
<1>2. Begin(a, call) /\ UNCHANGED <<docs, filedVars, refunds, granted>>
  BY DEF Approve
<1> HIDE DEF call
<1> QED BY <1>1, <1>2, QuietBegin

LEMMA RejectStep ==
  ASSUME Inv, NEW a \in Agent, NEW i \in Item, Reject(a, i)
  PROVE  Inv'
<1> DEFINE call == [at |-> "reject.save", item |-> i]
<1>1. call \in Call /\ Sound(a, call)
  BY DEF Call, Sound, Reject, HasStatus
<1>2. Begin(a, call) /\ UNCHANGED <<docs, filedVars, refunds, granted>>
  BY DEF Reject
<1> HIDE DEF call
<1> QED BY <1>1, <1>2, QuietBegin

LEMMA ConfirmStep ==
  ASSUME Inv, NEW a \in Agent, NEW i \in Item, NEW amount \in Amount \cup {NULL},
         Confirm(a, i, amount)
  PROVE  Inv'
<1> DEFINE named == IF amount = docs[i].approved THEN NULL ELSE amount
           call  == [at |-> "confirm.save", item |-> i, amount |-> named]
<1>1. named \in Amount \cup {NULL} /\ (named # NULL => named = amount)
  OBVIOUS
<1>2. Filed(i) /\ docs[i].approved # NULL
  BY DEF Confirm, AwaitsManager, HasStatus, Inv, State, Books
<1>3. amount # NULL => Affordable(i, amount)
  BY DEF Confirm
<1>4. Begin(a, call) /\ UNCHANGED <<docs, filedVars, refunds, granted>>
  BY DEF Confirm
<1> HIDE DEF named
<1>5. call \in Call
  BY <1>1 DEF Call
<1>6. Sound(a, call)
  BY <1>1, <1>2, <1>3 DEF Sound
<1> HIDE DEF call
<1> QED BY <1>4, <1>5, <1>6, QuietBegin

LEMMA GenerateRefundStep ==
  ASSUME Inv, NEW a \in Agent, NEW i \in Item, GenerateRefund(a, i)
  PROVE  Inv'
<1> DEFINE call == [at |-> "refund.look", item |-> i, amount |-> docs[i].approved]
<1>1. Filed(i) /\ docs[i].approved \in granted[i]
  BY DEF GenerateRefund, HasStatus, Inv, State, Books
<1>2. docs[i].approved \in Amount
  BY <1>1 DEF Inv, State, TypeOK
<1>3. call \in Call
  BY <1>2 DEF Call
<1>4. Sound(a, call)
  BY <1>1 DEF Sound
<1>5. Begin(a, call) /\ UNCHANGED <<docs, filedVars, refunds, granted>>
  BY DEF GenerateRefund
<1> HIDE DEF call
<1> QED BY <1>3, <1>4, <1>5, QuietBegin

\* What a refund of i would amount to, when i was approved with approved.
LEMMA RefundAmountIsAuthorised ==
  ASSUME State, NEW i \in Item, Filed(i), NEW approved \in granted[i],
         ~ Missing(RefundAmount(i, approved))
  PROVE  /\ RefundAmount(i, approved) \in Amount
         /\ RefundAmount(i, approved) > 0
         /\ Authorised(i, RefundAmount(i, approved))
         /\ Affordable(i, RefundAmount(i, approved))
<1>1. approved \in Amount /\ Amount \subseteq Nat /\ NULL \notin Amount
  BY ReimbursementsAssumption DEF State, TypeOK, Amount
<1>2. CASE i \in Claim /\ Missing(approved)
  <2>1. claimed[i] \in Amount /\ claimed[i] \in Nat
    BY <1>1, <1>2 DEF State, TypeOK, Books
  <2>2. approved = 0 /\ RefundAmount(i, approved) = claimed[i]
    BY <1>1, <1>2 DEF Missing, RefundAmount
  <2>3. Authorised(i, claimed[i])
    BY <1>2, <2>2 DEF Authorised
  <2>4. Affordable(i, claimed[i])
    BY <2>1 DEF Affordable
  <2>5. claimed[i] # 0
    BY <2>2 DEF Missing
  <2>6. claimed[i] > 0
    BY <2>1, <2>5
  <2> QED BY <2>1, <2>2, <2>3, <2>4, <2>6
<1>3. CASE ~ (i \in Claim /\ Missing(approved))
  <2>1. RefundAmount(i, approved) = approved
    BY <1>3 DEF RefundAmount
  <2>2. i \in Claim => approved <= claimed[i]
    BY DEF State, Books
  <2> QED BY <1>1, <2>1, <2>2 DEF Authorised, Affordable, Missing
<1> QED BY <1>2, <1>3

LEMMA LookForRefundStep ==
  ASSUME Inv, NEW a \in Agent, LookForRefund(a)
  PROVE  Inv'
<1>1. PICK call \in Call : call = calls[a] /\ call.at = "refund.look"
  BY DEF LookForRefund, At, Inv, State, TypeOK
<1>2. Sound(a, call)
  BY <1>1 DEF LookForRefund, At, Inv, CallsSound
<1>3. call.item \in Item
  BY CallFields
<1> DEFINE i      == call.item
           amount == RefundAmount(i, call.amount)
           next   == [at |-> "refund.save", item |-> i, amount |-> amount]
<1>4. Filed(i) /\ call.amount \in granted[i]
  BY <1>1, <1>2 DEF Sound
<1>5. UNCHANGED <<docs, filedVars, refunds, granted>>
  BY DEF LookForRefund
<1>6. CASE HasRefund(i) \/ Missing(amount)
  BY <1>1, <1>5, <1>6, QuietFinish DEF LookForRefund
<1>7. CASE ~ (HasRefund(i) \/ Missing(amount))
  <2>1. Begin(a, next)
    BY <1>1, <1>7 DEF LookForRefund
  <2>2. /\ amount \in Amount /\ amount > 0
        /\ Authorised(i, amount) /\ Affordable(i, amount)
    BY <1>3, <1>4, <1>7, RefundAmountIsAuthorised DEF Inv
  <2>3. refunds[i][a] = <<>>
    BY <1>7 DEF HasRefund
  <2> HIDE DEF amount
  <2>4. next \in Call
    BY <1>3, <2>2 DEF Call
  <2>5. Sound(a, next)
    BY <1>4, <2>2, <2>3 DEF Sound
  <2> HIDE DEF next
  <2> QED BY <1>5, <2>1, <2>4, <2>5, QuietBegin
<1> QED BY <1>6, <1>7

-----------------------------------------------------------------------------
(* The steps that write.                                                   *)

LEMMA NewDocIsADoc ==
  /\ NewDoc \in Doc /\ NewDoc # NULL
  /\ NewDoc.status = "under review" /\ NewDoc.approved = NULL
<1>1. {} \in SUBSET Mark /\ "under review" \in Status /\ NULL \in Amount \cup {NULL}
  BY DEF Status
<1>2. NewDoc \in Doc
  BY <1>1 DEF NewDoc, Doc
<1>3. NULL \notin Doc
  BY ReimbursementsAssumption
<1> QED BY <1>2, <1>3 DEF NewDoc

LEMMA SaveDisputeStep ==
  ASSUME Inv, NEW a \in Agent, SaveDispute(a)
  PROVE  Inv'
<1>1. PICK call \in Call : call = calls[a] /\ call.at = "dispute.save"
  BY DEF SaveDispute, At, Inv, State, TypeOK
<1>2. call.item \in Dispute /\ call.payslip \in Payslip /\ call.item \in Item
  BY <1>1, CallFields
<1> DEFINE d == call.item
<1>3. CASE Filed(d)
  BY <1>1, <1>3, QuietFinish DEF SaveDispute, filedVars
<1>4. CASE ~ Filed(d)
  <2>1. /\ docs' = [docs EXCEPT ![d] = NewDoc]
        /\ payslipOf' = [payslipOf EXCEPT ![d] = call.payslip]
        /\ claimed' = claimed /\ refunds' = refunds /\ granted' = granted
        /\ Finish(a)
    BY <1>1, <1>4 DEF SaveDispute
  <2>2. /\ NewDoc \in Doc /\ NewDoc # NULL
        /\ NewDoc.status = "under review" /\ NewDoc.approved = NULL
    BY NewDocIsADoc
  <2>3. /\ docs' \in [Item -> Doc \cup {NULL}]
        /\ payslipOf' \in [Dispute -> Payslip \cup {NULL}]
        /\ docs'[d] = NewDoc
        /\ \A i \in Item \ {d} : docs'[i] = docs[i]
        /\ d \notin Claim
    BY <1>2, <2>1, <2>2, ReimbursementsAssumption DEF Inv, State, TypeOK
  <2>4. \A b \in Agent : Kept(b)
    BY <1>4, <2>1, <2>3 DEF Kept, Filed
  <2>5. CallsSound' /\ calls' \in [Agent -> Call \cup {NULL}]
    BY <2>1, <2>4, CallsAfterFinish DEF Inv, State
  <2>6. TypeOK'
    BY <2>1, <2>3, <2>5 DEF Inv, State, TypeOK
  <2>7. Books' /\ SignedAsStatusSays'
    <3>1. Books'
      BY <2>1, <2>2, <2>3 DEF Inv, State, Books, Filed, HasStatus, Item
    <3>2. SignedAsStatusSays'
      BY <2>1, <2>2, <2>3 DEF Inv, State, SignedAsStatusSays, Filed
    <3> QED BY <3>1, <3>2
  <2>8. RefundsAreAuthorised' /\ OneRefundEach'
    BY <2>1 DEF Inv, State, RefundsAreAuthorised, OneRefundEach, Authorised
  <2>9. WithinClaim'
    BY <2>1, <2>3 DEF Inv, State, WithinClaim, Affordable, Filed
  <2> QED BY <2>5, <2>6, <2>7, <2>8, <2>9 DEF Inv, State
<1> QED BY <1>3, <1>4

LEMMA CreateClaimStep ==
  ASSUME Inv, NEW c \in Claim, NEW amount \in Amount, CreateClaim(c, amount)
  PROVE  Inv'
<1>1. /\ docs' = [docs EXCEPT ![c] = NewDoc]
      /\ claimed' = [claimed EXCEPT ![c] = amount]
      /\ payslipOf' = payslipOf /\ refunds' = refunds /\ granted' = granted
      /\ calls' = calls
      /\ docs[c] = NULL
      /\ c \in Item
  BY DEF CreateClaim, Filed, Item
<1>2. /\ NewDoc \in Doc /\ NewDoc # NULL /\ amount # NULL
      /\ NewDoc.status = "under review" /\ NewDoc.approved = NULL
  BY NewDocIsADoc, ReimbursementsAssumption
<1>3. /\ docs' \in [Item -> Doc \cup {NULL}]
      /\ claimed' \in [Claim -> Amount \cup {NULL}]
      /\ docs'[c] = NewDoc /\ claimed'[c] = amount
      /\ \A i \in Item \ {c} : docs'[i] = docs[i]
      /\ \A x \in Claim \ {c} : claimed'[x] = claimed[x]
  BY <1>1, <1>2 DEF Inv, State, TypeOK
<1>4. \A b \in Agent : Kept(b)
  BY <1>1, <1>3 DEF Kept, Filed
<1>6. CallsSound'
  BY <1>1, <1>4, CallsStay DEF Inv, State
<1>7. TypeOK'
  BY <1>1, <1>3 DEF Inv, State, TypeOK
<1>8. granted[c] = {}
  BY <1>1 DEF Inv, State, Books, Filed
<1>9. Books' /\ SignedAsStatusSays'
  <2>1. Books'
    BY <1>1, <1>2, <1>3, <1>8 DEF Inv, State, Books, Filed, HasStatus, Item
  <2>2. SignedAsStatusSays'
    BY <1>1, <1>2, <1>3 DEF Inv, State, SignedAsStatusSays, Filed
  <2> QED BY <2>1, <2>2
<1>10. \A b \in Agent : DOMAIN refunds[c][b] = {}
  BY <1>1, <1>8 DEF Inv, State, RefundsAreAuthorised, Authorised
<1>11. RefundsAreAuthorised' /\ OneRefundEach'
  BY <1>1, <1>3, <1>10 DEF Inv, State, RefundsAreAuthorised, OneRefundEach, Authorised
<1>12. WithinClaim'
  <2>1. \A x \in Claim : docs'[x] # NULL /\ docs'[x].approved # NULL =>
          docs'[x].approved <= claimed'[x]
    BY <1>1, <1>2, <1>3 DEF Inv, State, WithinClaim, Filed, Item
  <2>2. ASSUME NEW i \in Item, NEW b \in Agent, NEW n \in DOMAIN refunds[i][b]
        PROVE  refunds[i][b][n] > 0 /\ Affordable(i, refunds[i][b][n])'
    <3>1. i # c /\ refunds[i][b][n] > 0 /\ Affordable(i, refunds[i][b][n])
      BY <1>10 DEF Inv, State, WithinClaim
    <3> QED BY <1>1, <1>3, <3>1 DEF Affordable
  <2> QED BY <1>1, <2>1, <2>2 DEF WithinClaim, Filed
<1> QED BY <1>6, <1>7, <1>9, <1>11, <1>12 DEF Inv, State

\* The status, the comment and the amount of doc, which a handler saves as item i,
\* belong together; grants is what the save approves.
Coherent(i, doc, grants) ==
    /\ grants \subseteq Amount
    /\ docs[i].approved # NULL => doc.approved # NULL
    /\ doc.approved # NULL => Affordable(i, doc.approved)
    /\ \A amount \in grants : Affordable(i, amount)
    /\ doc.status = "pending payroll Manager approval" =>
         doc.approved # NULL /\ doc.comment = {"Payroll Specialist"}
    /\ doc.status = "approved" =>
         doc.approved # NULL /\ doc.approved \in grants /\ doc.comment = Mark

Saves(a, i, doc, grants) ==
    /\ docs' = [docs EXCEPT ![i] = doc]
    /\ granted' = [granted EXCEPT ![i] = @ \cup grants]
    /\ UNCHANGED <<filedVars, refunds>>
    /\ Finish(a)

LEMMA SaveDocument ==
  ASSUME Inv, NEW a \in Agent, NEW i \in Item, Filed(i), NEW doc \in Doc, NEW grants,
         Coherent(i, doc, grants), Saves(a, i, doc, grants)
  PROVE  Inv'
<1>1. /\ payslipOf' = payslipOf /\ claimed' = claimed /\ refunds' = refunds
      /\ doc # NULL /\ grants \subseteq Amount
  BY ReimbursementsAssumption DEF filedVars, Saves, Coherent
<1>2. /\ docs' \in [Item -> Doc \cup {NULL}]
      /\ granted' \in [Item -> SUBSET Amount]
      /\ docs'[i] = doc
      /\ \A x \in Item \ {i} : docs'[x] = docs[x]
      /\ granted'[i] = granted[i] \cup grants
      /\ \A x \in Item \ {i} : granted'[x] = granted[x]
  BY <1>1 DEF Inv, State, TypeOK, Saves
<1>3. \A b \in Agent : Kept(b)
  BY <1>1, <1>2 DEF Kept, Filed, Coherent
<1>4. CallsSound' /\ calls' \in [Agent -> Call \cup {NULL}]
  BY <1>3, CallsAfterFinish DEF Inv, State, Saves
<1>5. TypeOK'
  BY <1>1, <1>2, <1>4 DEF Inv, State, TypeOK
<1>6. Books'
  BY <1>1, <1>2 DEF Inv, State, Books, Filed, HasStatus, Affordable, Item, Coherent
<1>7. SignedAsStatusSays'
  BY <1>1, <1>2 DEF Inv, State, SignedAsStatusSays, Filed, Coherent
<1>8. RefundsAreAuthorised' /\ OneRefundEach'
  <2>1. \A x \in Item : granted[x] \subseteq granted'[x]
    BY <1>2
  <2>2. \A x \in Item, amount \in Amount : Authorised(x, amount) => Authorised(x, amount)'
    BY <1>1, <2>1 DEF Authorised
  <2>3. \A x \in Item, b \in Agent : \A n \in DOMAIN refunds[x][b] : refunds[x][b][n] \in Amount
    <3> SUFFICES ASSUME NEW x \in Item, NEW b \in Agent, NEW n \in DOMAIN refunds[x][b]
                 PROVE  refunds[x][b][n] \in Amount
      OBVIOUS
    <3>1. refunds[x][b] \in Seq(Amount)
      BY DEF Inv, State, TypeOK
    <3> QED BY <3>1, ElementOfSeq
  <2> QED BY <1>1, <2>2, <2>3 DEF Inv, State, RefundsAreAuthorised, OneRefundEach
<1>9. WithinClaim'
  BY <1>1, <1>2 DEF Inv, State, WithinClaim, Affordable, Filed, Item, Coherent
<1> QED BY <1>4, <1>5, <1>6, <1>7, <1>8, <1>9 DEF Inv, State

LEMMA SaveApprovalStep ==
  ASSUME Inv, NEW a \in Agent, SaveApproval(a)
  PROVE  Inv'
<1>1. PICK call \in Call : call = calls[a] /\ call.at = "approve.save"
  BY DEF SaveApproval, At, Inv, State, TypeOK
<1>2. Sound(a, call)
  BY <1>1 DEF SaveApproval, At, Inv, CallsSound
<1>3. /\ call.item \in Item /\ call.amount \in Amount
      /\ Filed(call.item) /\ Affordable(call.item, call.amount)
  BY <1>1, <1>2, CallFields DEF Sound
<1> DEFINE doc == [status   |-> "pending payroll Manager approval",
                   approved |-> call.amount,
                   comment  |-> {"Payroll Specialist"}]
<1>4. {"Payroll Specialist"} \in SUBSET Mark /\ "pending payroll Manager approval" \in Status
  BY DEF Mark, Status
<1>5. doc \in Doc
  BY <1>3, <1>4 DEF Doc
<1>6. /\ docs' = [docs EXCEPT ![call.item] = doc]
      /\ Finish(a) /\ UNCHANGED <<filedVars, refunds>> /\ granted' = granted
  BY <1>1 DEF SaveApproval
<1>7. granted' = [granted EXCEPT ![call.item] = @ \cup {}]
  BY <1>3, <1>6 DEF Inv, State, TypeOK
<1>8. Saves(a, call.item, doc, {})
  BY <1>6, <1>7 DEF Saves
<1>9. Coherent(call.item, doc, {})
  BY <1>3, ReimbursementsAssumption DEF Coherent
<1> HIDE DEF doc
<1> QED BY <1>3, <1>5, <1>8, <1>9, SaveDocument

LEMMA SaveRejectionStep ==
  ASSUME Inv, NEW a \in Agent, SaveRejection(a)
  PROVE  Inv'
<1>1. PICK call \in Call : call = calls[a] /\ call.at = "reject.save"
  BY DEF SaveRejection, At, Inv, State, TypeOK
<1>2. Sound(a, call)
  BY <1>1 DEF SaveRejection, At, Inv, CallsSound
<1>3. call.item \in Item /\ Filed(call.item)
  BY <1>1, <1>2, CallFields DEF Sound
<1>4. PICK old \in Doc : old = docs[call.item]
  BY <1>3 DEF Inv, State, TypeOK, Filed
<1> DEFINE doc == [old EXCEPT !.status = "rejected"]
<1>5. /\ doc \in Doc /\ doc.status = "rejected" /\ doc.approved = old.approved
  BY <1>4 DEF Doc, Status
<1>6. /\ docs' = [docs EXCEPT ![call.item] = doc]
      /\ Finish(a) /\ UNCHANGED <<filedVars, refunds>> /\ granted' = granted
  BY <1>1, <1>3, <1>4 DEF SaveRejection, Inv, State, TypeOK
<1>7. granted' = [granted EXCEPT ![call.item] = @ \cup {}]
  BY <1>3, <1>6 DEF Inv, State, TypeOK
<1>8. doc.approved # NULL => Affordable(call.item, doc.approved)
  BY <1>3, <1>4, <1>5 DEF Inv, State, WithinClaim, Affordable
<1>9. Saves(a, call.item, doc, {})
  BY <1>6, <1>7 DEF Saves
<1> HIDE DEF doc
<1>10. Coherent(call.item, doc, {})
  BY <1>4, <1>5, <1>8 DEF Coherent
<1> QED BY <1>3, <1>5, <1>9, <1>10, SaveDocument

LEMMA SaveConfirmationStep ==
  ASSUME Inv, NEW a \in Agent, SaveConfirmation(a)
  PROVE  Inv'
<1>1. PICK call \in Call : call = calls[a] /\ call.at = "confirm.save"
  BY DEF SaveConfirmation, At, Inv, State, TypeOK
<1>2. Sound(a, call)
  BY <1>1 DEF SaveConfirmation, At, Inv, CallsSound
<1>3. /\ call.item \in Item /\ call.amount \in Amount \cup {NULL} /\ Filed(call.item)
      /\ docs[call.item].approved # NULL
      /\ call.amount # NULL => Affordable(call.item, call.amount)
  BY <1>1, <1>2, CallFields DEF Sound
<1>4. docs[call.item] \in Doc
  BY <1>3 DEF Inv, State, TypeOK, Filed
<1> DEFINE final == IF call.amount = NULL THEN docs[call.item].approved ELSE call.amount
           doc   == [status |-> "approved", approved |-> final, comment |-> Mark]
<1>5. final \in Amount /\ final # NULL
  BY <1>3, <1>4, ReimbursementsAssumption DEF Doc
<1>6. Affordable(call.item, final)
  BY <1>3 DEF Inv, State, WithinClaim, Affordable
<1>7. /\ docs' = [docs EXCEPT ![call.item] = doc]
      /\ granted' = [granted EXCEPT ![call.item] = @ \cup {final}]
      /\ Finish(a) /\ UNCHANGED <<filedVars, refunds>>
  BY <1>1 DEF SaveConfirmation
<1> HIDE DEF final
<1>8. /\ doc \in Doc /\ doc.status = "approved" /\ doc.approved = final
      /\ doc.comment = Mark
  BY <1>5 DEF Doc, Status
<1>9. Saves(a, call.item, doc, {final})
  BY <1>7 DEF Saves
<1> HIDE DEF doc
<1>10. Coherent(call.item, doc, {final})
  BY <1>5, <1>6, <1>8 DEF Coherent
<1> QED BY <1>3, <1>8, <1>9, <1>10, SaveDocument

LEMMA SaveRefundStep ==
  ASSUME Inv, NEW a \in Agent, SaveRefund(a)
  PROVE  Inv'
<1>1. PICK call \in Call : call = calls[a] /\ call.at = "refund.save"
  BY DEF SaveRefund, At, Inv, State, TypeOK
<1>2. Sound(a, call)
  BY <1>1 DEF SaveRefund, At, Inv, CallsSound
<1> DEFINE i == call.item
<1>3. /\ i \in Item /\ call.amount \in Amount /\ call.amount > 0
      /\ Authorised(i, call.amount) /\ Affordable(i, call.amount)
      /\ refunds[i][a] = <<>>
  BY <1>1, <1>2, CallFields DEF Sound
<1>4. /\ refunds' = [refunds EXCEPT ![i][a] = Append(@, call.amount)]
      /\ docs' = docs /\ payslipOf' = payslipOf /\ claimed' = claimed /\ granted' = granted
      /\ Finish(a)
  BY <1>1 DEF SaveRefund, filedVars
<1>5. refunds \in [Item -> [Agent -> Seq(Amount)]]
  BY DEF Inv, State, TypeOK
<1>6. /\ refunds'[i][a] = <<call.amount>>
      /\ \A b \in Agent \ {a} : refunds'[i][b] = refunds[i][b]
      /\ \A x \in Item \ {i} : refunds'[x] = refunds[x]
      /\ refunds' \in [Item -> [Agent -> Seq(Amount)]]
  BY <1>3, <1>4, <1>5
<1>7. \A b \in Agent \ {a} : Kept(b)
  BY <1>4, <1>6 DEF Kept, Filed
<1>8. CallsSound' /\ calls' \in [Agent -> Call \cup {NULL}]
  BY <1>4, <1>7, CallsAfterFinish DEF Inv, State
<1>9. TypeOK'
  BY <1>4, <1>6, <1>8 DEF Inv, State, TypeOK
<1>10. Books' /\ SignedAsStatusSays'
  BY <1>4 DEF Inv, State, Books, SignedAsStatusSays, Filed, HasStatus
<1>11. ASSUME NEW x \in Item, NEW b \in Agent, NEW n \in DOMAIN refunds'[x][b]
       PROVE  \/ n \in DOMAIN refunds[x][b] /\ refunds'[x][b][n] = refunds[x][b][n]
              \/ x = i /\ refunds'[x][b][n] = call.amount
  BY <1>3, <1>6
<1>12. RefundsAreAuthorised'
  BY <1>3, <1>4, <1>11 DEF Inv, State, RefundsAreAuthorised, Authorised
<1>13. WithinClaim'
  <2>1. \A c \in Claim : (Filed(c) /\ docs[c].approved # NULL => docs[c].approved <= claimed[c])'
    BY <1>4 DEF Inv, State, WithinClaim, Filed
  <2>2. \A x \in Item, b \in Agent : \A n \in DOMAIN refunds'[x][b] :
          /\ refunds'[x][b][n] > 0
          /\ x \in Claim => refunds'[x][b][n] <= claimed[x]
    BY <1>3, <1>11 DEF Inv, State, WithinClaim, Affordable
  <2> QED BY <1>4, <2>1, <2>2 DEF WithinClaim, Affordable
<1>14. OneRefundEach'
  <2>1. Len(<<call.amount>>) = 1
    OBVIOUS
  <2>2. ASSUME NEW x \in Item, NEW b \in Agent PROVE Len(refunds'[x][b]) <= 1
    <3>1. CASE x = i /\ b = a
      <4>1. refunds'[x][b] = <<call.amount>>
        BY <1>6, <3>1
      <4> QED BY <2>1, <4>1
    <3>2. CASE x # i \/ b # a
      BY <1>6, <3>2 DEF Inv, State, OneRefundEach
    <3> QED BY <3>1, <3>2
  <2> QED BY <2>2 DEF OneRefundEach
<1> QED BY <1>8, <1>9, <1>10, <1>12, <1>13, <1>14 DEF Inv, State

-----------------------------------------------------------------------------
(* The invariant, and what follows from it.                                *)

LEMMA Initially == Init => Inv
<1> SUFFICES ASSUME Init PROVE Inv
  OBVIOUS
<1>1. TypeOK
  BY DEF Init, TypeOK
<1>2. Books /\ SignedAsStatusSays
  BY DEF Init, Books, SignedAsStatusSays, Filed, HasStatus, Item
<1>3. \A i \in Item, a \in Agent : refunds[i][a] = <<>>
  BY DEF Init
<1>4. RefundsAreAuthorised /\ OneRefundEach
  BY <1>3 DEF RefundsAreAuthorised, OneRefundEach
<1>5. WithinClaim
  BY <1>3 DEF Init, WithinClaim, Filed, Item
<1>6. CallsSound
  BY DEF Init, CallsSound
<1> QED BY <1>1, <1>2, <1>4, <1>5, <1>6 DEF Inv, State

LEMMA Always == Inv /\ [Next]_vars => Inv'
<1> SUFFICES ASSUME Inv, [Next]_vars PROVE Inv'
  OBVIOUS
<1>1. CASE UNCHANGED vars
  <2>1. UNCHANGED <<docs, filedVars, refunds, granted>> /\ calls' = calls
    BY <1>1 DEF vars, filedVars
  <2>2. State' /\ \A b \in Agent : Kept(b)
    BY <2>1, QuietStep DEF Inv, State, TypeOK
  <2>3. CallsSound'
    BY <2>1, <2>2, CallsStay DEF Inv, State
  <2> QED BY <2>2, <2>3 DEF Inv
<1>2. ASSUME NEW c \in Claim, NEW amount \in Amount, CreateClaim(c, amount) PROVE Inv'
  BY <1>2, CreateClaimStep
<1>3. ASSUME NEW a \in Agent, NEW d \in Dispute, NEW p \in Payslip, CreateDispute(a, d, p)
      PROVE  Inv'
  BY <1>3, CreateDisputeStep
<1>4. ASSUME NEW a \in Agent, NEW i \in Item, Review(a, i) PROVE Inv'
  BY <1>4, ApproveStep, RejectStep, ConfirmStep, GenerateRefundStep DEF Review
<1>5. ASSUME NEW a \in Agent, Step(a) PROVE Inv'
  <2>1. CASE CallFails(a)
    BY <2>1, QuietFinish DEF CallFails
  <2> QED BY <1>5, <2>1, SaveDisputeStep, SaveApprovalStep, SaveRejectionStep,
             SaveConfirmationStep, LookForRefundStep, SaveRefundStep DEF Step
<1> QED BY <1>1, <1>2, <1>3, <1>4, <1>5 DEF Next

\* Everything the handlers rely on holds at all times.
THEOREM ReimbursementsInvariant == Spec => []Inv
BY Initially, Always, PTL DEF Spec

\* Documents, amounts and refunds have their types, whatever is in flight.
THEOREM ReimbursementsTypeCorrect == Spec => []TypeOK
<1>1. Inv => TypeOK
  BY DEF Inv, State
<1> QED BY <1>1, ReimbursementsInvariant, PTL

\* The signatures in resolutionComment agree with the status, for any overlap of
\* approvals, rejections and confirmations.
THEOREM SignaturesFollowStatus == Spec => []SignedAsStatusSays
<1>1. Inv => SignedAsStatusSays
  BY DEF Inv, State
<1> QED BY <1>1, ReimbursementsInvariant, PTL

\* No refund is generated that the specialist and the manager did not authorise.
THEOREM RefundsNeedAuthority == Spec => []RefundsAreAuthorised
<1>1. Inv => RefundsAreAuthorised
  BY DEF Inv, State
<1> QED BY <1>1, ReimbursementsInvariant, PTL

\* No claim is approved for, or refunded, more than it asks for.
THEOREM RefundsStayWithinClaims == Spec => []WithinClaim
<1>1. Inv => WithinClaim
  BY DEF Inv, State
<1> QED BY <1>1, ReimbursementsInvariant, PTL

\* Requests that do not overlap refund an item at most once.
THEOREM RefundsAreNotRepeated == Spec => []OneRefundEach
<1>1. Inv => OneRefundEach
  BY DEF Inv, State
<1> QED BY <1>1, ReimbursementsInvariant, PTL
=============================================================================
