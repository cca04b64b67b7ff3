----------------------------- MODULE ServiceProofs -----------------------------
(***************************************************************************)
(* Four services around the loop, each for any number of its actors: the   *)
(* approval cards, the numbered event log, the claim of a child that       *)
(* drives an operation and the update of an install.  They share no        *)
(* variable.                                                               *)
(***************************************************************************)
EXTENDS Approvals, EventLog, ProcessClaim, UpdateRollback, SequenceTheorems,
        FiniteSetTheorems, TLAPS

-----------------------------------------------------------------------------
(* Approvals.  Two records outlive a card, the column and the refusal that *)
(* is replayed; the invariant ties both to what the user said on a card.   *)

ApprovalShapes ==
    /\ caller = [c \in Callers |-> caller[c]]
    /\ suppressed = [x \in Calls |-> suppressed[x]]
    /\ said = [id \in Ids |-> said[id]] /\ askedFor = [id \in Ids |-> askedFor[id]]
    /\ \A id \in Ids : said[id] =
          [answer |-> said[id].answer, how |-> said[id].how, at |-> said[id].at]
    /\ lastCard \in Nat

\* A card is one of the ids given out, and asks for what its id was given for.
CardsAreOnRecord ==
    /\ \A k \in cards : /\ k.id \in Ids /\ k.id <= lastCard
                         /\ askedFor[k.id].call = k.call
    /\ \A k, l \in cards : k.id = l.id => k = l

\* The column is about the newest card: it previews the call that one asks for,
\* under its window, and a decision on it is the user's latest on that card.
ColumnIsOnRecord ==
    \/ column = NoColumn
    \/ /\ column = [id |-> column.id, preview |-> column.preview,
                     asked |-> column.asked, decision |-> column.decision]
       /\ column.id \in Ids /\ column.id = lastCard
       /\ column.preview = PreviewOf[askedFor[column.id].call]
       /\ column.asked = askedFor[column.id].asked
       /\ column.decision \in Decisions
       /\ column.decision # "none" =>
             said[column.id].answer = column.decision /\ said[column.id].how = "recorded"

\* Nobody answers on a card that is neither up nor in the column.
Over(id) == id <= lastCard /\ ~Live(id) /\ column.id # id

\* The refusal on record for x is the no clicked on card id.
Declined(x, id) == /\ askedFor[id].call = x /\ said[id].at = suppressed[x].at
                   /\ said[id].answer = "no" /\ said[id].how = "clicked"

\* A refusal that is replayed as the user's is a no to a card that is over, so
\* no later answer can turn it into a yes.
RefusalsAreOnRecord ==
    \A x \in Calls :
        /\ suppressed[x].reason \in {"none"} \cup Reasons
        /\ suppressed[x].reason = "declined" =>
              \E id \in Ids : Declined(x, id) /\ Over(id)

ApprovalInv == /\ ApprovalShapes /\ CardsAreOnRecord /\ ColumnIsOnRecord
               /\ RefusalsAreOnRecord

-----------------------------------------------------------------------------
\* Nothing is asked, answered or refused in the beginning.
LEMMA ApprovalInvInit == ASSUME CardInit PROVE ApprovalInv /\ NewestAskIsDurable
BY DEF CardInit, ApprovalInv, ApprovalShapes, CardsAreOnRecord, ColumnIsOnRecord,
       RefusalsAreOnRecord, NewestAskIsDurable, Live, NoRefusal, Ids, Unsaid

\* A settlement takes cards down, and the column with the card it belongs to.
LEMMA SettleTakesDown ==
    ASSUME NEW ids, NEW outcome, Settle(ids, outcome)
    PROVE  /\ cards' = {k \in cards : k.id \notin ids}
           /\ column.id \in ids => column' = NoColumn
           /\ column.id \notin ids => column' = column
           /\ \A id : Live(id)' <=> Live(id) /\ id \notin ids
BY DEF Settle, ClearsColumn, Live

\* Every step but a new card keeps the column or the card it names is gone.
LEMMA NewestStep ==
    ASSUME NewestAskIsDurable, CardNext PROVE NewestAskIsDurable'
<1>1. ASSUME NEW c \in Callers, NEW x \in Calls, Request(c, x)
      PROVE  NewestAskIsDurable'
  BY <1>1 DEF Request, NewestAskIsDurable, Live
<1>2. ASSUME NEW c \in Callers, ApplyRecorded(c) PROVE NewestAskIsDurable'
  BY <1>2 DEF ApplyRecorded, Matches, Survives, NewestAskIsDurable, Live
<1>3. ASSUME NEW c \in Callers, PutUpCard(c) PROVE NewestAskIsDurable'
  BY <1>3 DEF PutUpCard, NewestAskIsDurable
<1>4. ASSUME NEW c \in Callers, Return(c) PROVE NewestAskIsDurable'
  BY <1>4 DEF Return, NewestAskIsDurable, Live
<1>5. ASSUME NEW ids, NEW outcome, Settle(ids, outcome), UNCHANGED lastCard
      PROVE  NewestAskIsDurable'
  BY <1>5, SettleTakesDown DEF NewestAskIsDurable
<1>6. ASSUME NEW id \in Ids, Answer(id) \/ TimesOut(id) PROVE NewestAskIsDurable'
  BY <1>5, <1>6 DEF Answer, Click, TimesOut, RecordAnswer, Survives, NoColumn,
                    NewestAskIsDurable, Live
<1>7. CASE UserReplies  BY <1>5, <1>7 DEF UserReplies
<1>8. CASE SweepColumn
  BY <1>8 DEF SweepColumn, Survives, NewestAskIsDurable, Live
<1>9. CASE Restart  BY <1>9 DEF Restart, NewestAskIsDurable, Live
<1>10. CASE ClockTick  BY <1>10 DEF ClockTick, NewestAskIsDurable, Live
<1> QED BY <1>1, <1>2, <1>3, <1>4, <1>6, <1>7, <1>8, <1>9, <1>10 DEF CardNext, Ask

-----------------------------------------------------------------------------
\* A settlement that answers nothing, or answers on the one card it takes down.
LEMMA SettleKeeps ==
    ASSUME ApprovalInv, NEW ids, NEW outcome, Settle(ids, outcome),
           UNCHANGED <<lastCard, askedFor>>,
           said' = said \/ \E id \in ids : \E answer :
               ids = {id} /\ Live(id) /\ said' = [said EXCEPT ![id] = Said(answer, "clicked")],
           suppressed' = [x \in Calls |-> suppressed'[x]],
           \A x \in Calls : suppressed'[x].reason \in {"none"} \cup Reasons,
           \A x \in Calls : suppressed'[x].reason = "declined" =>
               \/ suppressed'[x] = suppressed[x]
               \/ \E id \in ids \cap Ids : Declined(x, id)' /\ Live(id)
    PROVE  ApprovalInv'
<1>1. ApprovalShapes /\ CardsAreOnRecord /\ ColumnIsOnRecord /\ RefusalsAreOnRecord
  BY DEF ApprovalInv
<1>2. ApprovalShapes'
  <2>1. caller' = [c \in Callers |-> caller'[c]]  BY DEF Settle
  <2>2. /\ said' = [id \in Ids |-> said'[id]]
        /\ \A id \in Ids : said'[id] =
              [answer |-> said'[id].answer, how |-> said'[id].how, at |-> said'[id].at]
    BY <1>1 DEF ApprovalShapes, Said
  <2> QED BY <1>1, <2>1, <2>2 DEF ApprovalShapes, Ids
<1>3. CardsAreOnRecord'  BY <1>1, SettleTakesDown DEF CardsAreOnRecord
<1>4. \A id \in Ids : id \notin ids => said'[id] = said[id]
  BY <1>1 DEF ApprovalShapes
<1>5. ColumnIsOnRecord'
  <2>1. CASE column' = NoColumn  BY <2>1 DEF ColumnIsOnRecord, NoColumn
  <2>2. CASE column' = column /\ column.id \notin ids
    BY <1>1, <1>4, <2>2 DEF ColumnIsOnRecord
  <2> QED BY <2>1, <2>2, SettleTakesDown
<1>6. \A id \in Ids : Over(id) => Over(id)' /\ said'[id] = said[id]
  <2> SUFFICES ASSUME NEW id \in Ids, Over(id) PROVE Over(id)' /\ said'[id] = said[id]
    OBVIOUS
  <2>1. column'.id # id
    BY SettleTakesDown DEF Over, NoColumn, Ids
  <2>2. ~Live(id)'  BY SettleTakesDown DEF Over
  <2>3. said'[id] = said[id]  BY <1>1 DEF ApprovalShapes, Over
  <2> QED BY <2>1, <2>2, <2>3 DEF Over
<1>7. \A id \in ids \cap Ids : Live(id) => Over(id)'
  <2> SUFFICES ASSUME NEW id \in ids \cap Ids, Live(id) PROVE Over(id)'
    OBVIOUS
  <2>1. id <= lastCard'  BY <1>1 DEF CardsAreOnRecord, Live
  <2>2. ~Live(id)'  BY SettleTakesDown
  <2>3. column'.id # id  BY SettleTakesDown DEF NoColumn, Ids
  <2> QED BY <2>1, <2>2, <2>3 DEF Over
<1>8. RefusalsAreOnRecord'
  <2> SUFFICES ASSUME NEW x \in Calls, suppressed'[x].reason = "declined"
               PROVE  \E id \in Ids : Declined(x, id)' /\ Over(id)'
    BY DEF RefusalsAreOnRecord
  <2>1. CASE suppressed'[x] = suppressed[x]
    BY <1>1, <1>6, <2>1 DEF RefusalsAreOnRecord, Declined
  <2>2. CASE \E id \in ids \cap Ids : Declined(x, id)' /\ Live(id)
    BY <1>7, <2>2
  <2> QED BY <2>1, <2>2
<1> QED BY <1>2, <1>3, <1>5, <1>8 DEF ApprovalInv

\* Cards, columns and refusals on record stay so while the rest goes on.
LEMMA NothingAnswered ==
    ASSUME ApprovalInv, UNCHANGED <<cards, lastCard, suppressed, said, askedFor>>,
           column' = column \/ column' = NoColumn,
           caller' = [c \in Callers |-> caller'[c]]
    PROVE  ApprovalInv'
<1>1. \A id \in Ids : Over(id) => Over(id)'
  BY DEF Over, Live, NoColumn, Ids
<1>2. RefusalsAreOnRecord'  BY <1>1 DEF ApprovalInv, RefusalsAreOnRecord, Declined
<1>3. ColumnIsOnRecord'  BY DEF ApprovalInv, ColumnIsOnRecord
<1>4. ApprovalShapes' /\ CardsAreOnRecord'
  BY DEF ApprovalInv, ApprovalShapes, CardsAreOnRecord, Ids
<1> QED BY <1>2, <1>3, <1>4 DEF ApprovalInv

\* A new card takes an id nobody has answered on, and the column with it.
LEMMA PutUpKeeps ==
    ASSUME ApprovalInv, NEW c \in Callers, PutUpCard(c) PROVE ApprovalInv'
<1> DEFINE ask == caller[c].call
           asked == IF Matches(ask) THEN column.asked ELSE clock
           new == [id |-> lastCard + 1, call |-> ask, asked |-> asked]
<1>1. ApprovalShapes /\ CardsAreOnRecord /\ ColumnIsOnRecord /\ RefusalsAreOnRecord
  BY DEF ApprovalInv
<1>2. /\ lastCard \in Nat /\ lastCard + 1 \in Ids /\ lastCard' = lastCard + 1
      /\ cards' = cards \cup {new}
      /\ askedFor' = [askedFor EXCEPT ![lastCard + 1] = [call |-> ask, asked |-> asked]]
      /\ column' = [id |-> lastCard + 1, preview |-> PreviewOf[ask], asked |-> asked,
                    decision |-> "none"]
      /\ UNCHANGED <<suppressed, said>>
      /\ caller' = [caller EXCEPT ![c] = Waiting(lastCard + 1)]
  BY <1>1 DEF PutUpCard, NextId, ApprovalShapes
<1>3. /\ askedFor'[lastCard + 1] = [call |-> ask, asked |-> asked]
      /\ \A id \in Ids : id <= lastCard => askedFor'[id] = askedFor[id]
  BY <1>1, <1>2 DEF ApprovalShapes
<1>4. ApprovalShapes'
  <2>1. Ids' = Ids  BY DEF Ids
  <2>2. caller' = [d \in Callers |-> caller'[d]]  BY <1>1, <1>2 DEF ApprovalShapes
  <2>3. askedFor' = [id \in Ids |-> askedFor'[id]]  BY <1>1, <1>2 DEF ApprovalShapes
  <2> QED BY <1>1, <1>2, <2>1, <2>2, <2>3 DEF ApprovalShapes
<1>5. CardsAreOnRecord'
  <2>1. \A k \in cards' : k \in cards \/ k = new  BY <1>2
  <2>2. \A k \in cards : k.id <= lastCard /\ k.id \in Ids  BY <1>1 DEF CardsAreOnRecord
  <2>3. \A k \in cards : k.id # new.id  BY <1>2, <2>2 DEF Ids
  <2>4. \A k \in cards' : /\ k.id \in Ids /\ k.id <= lastCard'
                          /\ askedFor'[k.id].call = k.call
    BY <1>1, <1>2, <1>3, <2>1, <2>2 DEF CardsAreOnRecord, Ids
  <2> QED BY <1>1, <2>1, <2>3, <2>4 DEF CardsAreOnRecord
<1>6. ColumnIsOnRecord'  BY <1>2, <1>3 DEF ColumnIsOnRecord, Decisions
<1>7. \A id \in Ids : Over(id) => Over(id)'
  BY <1>2 DEF Over, Live, Ids
<1>8. RefusalsAreOnRecord'
  BY <1>1, <1>2, <1>3, <1>7 DEF RefusalsAreOnRecord, Declined, Over
<1> QED BY <1>4, <1>5, <1>6, <1>8 DEF ApprovalInv

\* The card of a live id is the one that bears it.
LEMMA CardOfLive ==
    ASSUME CardsAreOnRecord, NEW id, Live(id)
    PROVE  /\ CardOf(id) \in cards /\ CardOf(id).id = id
           /\ id \in Ids /\ askedFor[id].call = CardOf(id).call
BY DEF Live, CardOf, CardsAreOnRecord

\* A click is the last answer on its card.
LEMMA ClickKeeps ==
    ASSUME ApprovalInv, NEW id \in Ids, NEW yes \in BOOLEAN, Click(id, yes)
    PROVE  ApprovalInv'
<1>1. ApprovalShapes /\ CardsAreOnRecord  BY DEF ApprovalInv
<1>2. /\ Settle({id}, IF yes THEN "approved" ELSE "declined") /\ Live(id)
      /\ UNCHANGED <<lastCard, askedFor>>
      /\ said' = [said EXCEPT ![id] = Said(Yes(yes), "clicked")]
      /\ suppressed' = [suppressed EXCEPT ![CardOf(id).call] =
            IF yes THEN NoRefusal ELSE [reason |-> "declined", at |-> clock]]
  BY DEF Click
<1>3. suppressed' = [x \in Calls |-> suppressed'[x]]
  BY <1>1, <1>2 DEF ApprovalShapes
<1>4. askedFor[id].call = CardOf(id).call  BY <1>1, <1>2, CardOfLive
<1>5. said'[id] = [answer |-> Yes(yes), how |-> "clicked", at |-> clock]
  BY <1>1, <1>2 DEF ApprovalShapes, Said
<1>r. \A x \in Calls : suppressed'[x].reason \in {"none"} \cup Reasons
  BY <1>1, <1>2 DEF ApprovalInv, RefusalsAreOnRecord, ApprovalShapes, NoRefusal, Reasons
<1>6. ASSUME NEW x \in Calls, suppressed'[x].reason = "declined",
             suppressed'[x] # suppressed[x]
      PROVE  Declined(x, id)'
  <2>1. x = CardOf(id).call  BY <1>1, <1>2, <1>6 DEF ApprovalShapes
  <2>2. ~yes /\ suppressed'[x].at = clock
    BY <1>1, <1>2, <1>6, <2>1 DEF ApprovalShapes, NoRefusal
  <2> QED BY <1>2, <1>4, <1>5, <2>1, <2>2 DEF Declined, Yes
<1> HIDE DEF Settle, Live
<1>7. \A x \in Calls : suppressed'[x].reason = "declined" =>
         \/ suppressed'[x] = suppressed[x]
         \/ \E i \in {id} \cap Ids : Declined(x, i)' /\ Live(i)
  BY <1>2, <1>6
<1>8. \E i \in {id} : \E answer :
         {id} = {i} /\ Live(i) /\ said' = [said EXCEPT ![i] = Said(answer, "clicked")]
  BY <1>2
<1> QED BY <1>2, <1>3, <1>r, <1>7, <1>8, SettleKeeps

\* An answer recorded after a restart replaces the one on its own column.
LEMMA RecordKeeps ==
    ASSUME ApprovalInv, NEW id \in Ids, NEW yes \in BOOLEAN, RecordAnswer(id, yes)
    PROVE  ApprovalInv'
<1>1. ApprovalShapes /\ CardsAreOnRecord /\ ColumnIsOnRecord /\ RefusalsAreOnRecord
  BY DEF ApprovalInv
<1>2. column.id = id /\ column # NoColumn
      /\ UNCHANGED <<caller, cards, lastCard, suppressed, askedFor>>
  BY DEF RecordAnswer, Survives
<1>3. CASE column' = NoColumn /\ UNCHANGED said
  BY <1>1, <1>2, <1>3, NothingAnswered DEF ApprovalShapes
<1>4. CASE /\ column' = [column EXCEPT !.decision = Yes(yes)]
           /\ said' = [said EXCEPT ![id] = Said(Yes(yes), "recorded")]
  <2>1. ApprovalShapes' /\ CardsAreOnRecord'
    BY <1>1, <1>2, <1>4 DEF ApprovalShapes, CardsAreOnRecord, Ids, Said
  <2>2. column' = [id |-> column.id, preview |-> column.preview,
                   asked |-> column.asked, decision |-> Yes(yes)]
    BY <1>1, <1>2, <1>4 DEF ColumnIsOnRecord
  <2>3. said'[id] = [answer |-> Yes(yes), how |-> "recorded", at |-> clock]
    BY <1>1, <1>4 DEF ApprovalShapes, Said
  <2>4. ColumnIsOnRecord'
    BY <1>1, <1>2, <2>2, <2>3 DEF ColumnIsOnRecord, Decisions, Yes
  <2>5. \A i \in Ids : Over(i) => Over(i)' /\ said'[i] = said[i]
    BY <1>1, <1>2, <1>4, <2>2 DEF Over, Live, ApprovalShapes
  <2>6. RefusalsAreOnRecord'
    BY <1>1, <1>2, <2>5 DEF RefusalsAreOnRecord, Declined
  <2> QED BY <2>1, <2>4, <2>6 DEF ApprovalInv
<1> QED BY <1>3, <1>4 DEF RecordAnswer

\* The answer applied leaves with the column, and its card is over.
LEMMA ApplyKeeps ==
    ASSUME ApprovalInv, NEW c \in Callers, ApplyRecorded(c) PROVE ApprovalInv'
<1>1. ApprovalShapes /\ CardsAreOnRecord /\ ColumnIsOnRecord /\ RefusalsAreOnRecord
  BY DEF ApprovalInv
<1>2. /\ column # NoColumn /\ column' = NoColumn
      /\ said' = [said EXCEPT ![column.id].how = "applied"]
      /\ UNCHANGED <<cards, lastCard, suppressed, askedFor>>
  BY DEF ApplyRecorded, Matches, Survives
<1>3. ApprovalShapes'
  <2>1. caller' = [d \in Callers |-> caller'[d]]
    BY <1>1 DEF ApplyRecorded, ApprovalShapes
  <2>2. /\ said' = [id \in Ids |-> said'[id]]
        /\ \A id \in Ids : said'[id] =
              [answer |-> said'[id].answer, how |-> said'[id].how, at |-> said'[id].at]
    BY <1>1, <1>2 DEF ApprovalShapes
  <2> QED BY <1>1, <1>2, <2>1, <2>2 DEF ApprovalShapes, Ids
<1>4. \A id \in Ids : Over(id) => Over(id)' /\ said'[id] = said[id]
  BY <1>1, <1>2 DEF Over, Live, ApprovalShapes, NoColumn, Ids
<1>5. RefusalsAreOnRecord'
  <2>1. UNCHANGED <<suppressed, askedFor>>  BY <1>2
  <2>2. \A x, id : Declined(x, id) /\ said'[id] = said[id] => Declined(x, id)'
    BY <2>1 DEF Declined
  <2> QED BY <1>1, <1>4, <2>1, <2>2 DEF RefusalsAreOnRecord
<1>6. CardsAreOnRecord'  BY <1>1, <1>2 DEF CardsAreOnRecord, Ids
<1>7. ColumnIsOnRecord'  BY <1>2 DEF ColumnIsOnRecord
<1> QED BY <1>3, <1>5, <1>6, <1>7 DEF ApprovalInv

\* Asks, answers, timeouts, replies, sweeps and restarts keep the records true.
LEMMA ApprovalInvStep == ASSUME ApprovalInv, [CardNext]_cardVars PROVE ApprovalInv'
<1>s. ApprovalShapes /\ CardsAreOnRecord  BY DEF ApprovalInv
<1>1. ASSUME NEW c \in Callers, NEW x \in Calls, Request(c, x) PROVE ApprovalInv'
  BY <1>s, <1>1, NothingAnswered DEF Request, ApprovalShapes
<1>2. ASSUME NEW c \in Callers, ApplyRecorded(c) \/ Return(c) PROVE ApprovalInv'
  BY <1>s, <1>2, ApplyKeeps, NothingAnswered DEF Return, ApprovalShapes
<1>3. ASSUME NEW c \in Callers, PutUpCard(c) PROVE ApprovalInv'
  BY <1>3, PutUpKeeps
<1>4. ASSUME NEW id \in Ids, Answer(id) PROVE ApprovalInv'
  BY <1>4, ClickKeeps, RecordKeeps DEF Answer
<1>5. ASSUME NEW ids, NEW outcome, Settle(ids, outcome),
             UNCHANGED <<lastCard, askedFor, said>>,
             suppressed' = [x \in Calls |-> suppressed'[x]],
             \A x \in Calls : \/ suppressed'[x] = suppressed[x]
                            \/ suppressed'[x].reason \in {"none", "timeout"}
      PROVE  ApprovalInv'
  BY <1>5, SettleKeeps DEF ApprovalInv, RefusalsAreOnRecord, Reasons
<1>6. ASSUME NEW id \in Ids, TimesOut(id) PROVE ApprovalInv'
  <2>1. \A x \in Calls : \/ suppressed'[x] = suppressed[x]
                       \/ suppressed'[x].reason = "timeout"
    BY <1>s, <1>6 DEF TimesOut, ApprovalShapes
  <2> QED BY <1>s, <1>5, <1>6, <2>1 DEF TimesOut, ApprovalShapes
<1>7. CASE UserReplies
  <2>1. PICK forgets : suppressed' = [x \in Calls |->
           IF x \in forgets THEN NoRefusal ELSE suppressed[x]]
    BY <1>7 DEF UserReplies
  <2>2. \A x \in Calls : \/ suppressed'[x] = suppressed[x]
                       \/ suppressed'[x].reason = "none"
    BY <2>1 DEF NoRefusal
  <2>3. suppressed' = [x \in Calls |-> suppressed'[x]]  BY <2>1
  <2> QED BY <1>5, <1>7, <2>2, <2>3 DEF UserReplies
<1>8. CASE SweepColumn \/ ClockTick
  BY <1>s, <1>8, NothingAnswered DEF SweepColumn, ClockTick, ApprovalShapes
<1>9. CASE Restart
  <2>1. /\ suppressed' = [x \in Calls |-> NoRefusal] /\ cards' = {}
        /\ caller' = [c \in Callers |-> Idle]
        /\ UNCHANGED <<lastCard, column, said, askedFor>>
    BY <1>9 DEF Restart
  <2>2. RefusalsAreOnRecord'  BY <2>1 DEF RefusalsAreOnRecord, NoRefusal
  <2> QED BY <2>1, <2>2 DEF ApprovalInv, ApprovalShapes, CardsAreOnRecord, ColumnIsOnRecord, Ids
<1>10. CASE UNCHANGED cardVars
  BY <1>s, <1>10, NothingAnswered DEF cardVars, ApprovalShapes
<1> QED BY <1>1, <1>2, <1>3, <1>4, <1>6, <1>7, <1>8, <1>9, <1>10 DEF CardNext, Ask

-----------------------------------------------------------------------------
\* What is applied is the answer recorded on the newest card, once.
LEMMA AppliesTheRecord ==
    ASSUME ApprovalInv, NEW c \in Callers, ApplyRecorded(c)
    PROVE  /\ ByRecord(c, column.decision) /\ column.decision \in {"yes", "no"}
           /\ caller'[c].outcome =
                 IF column.decision = "yes" THEN "approved" ELSE "declined"
<1>1. ApprovalShapes /\ ColumnIsOnRecord  BY DEF ApprovalInv
<1>2. /\ caller'[c] = Told(caller[c].call,
                           IF column.decision = "yes" THEN "approved" ELSE "declined")
      /\ column # NoColumn /\ column.preview = PreviewOf[caller[c].call]
      /\ ~Expired(column.asked) /\ caller[c].at = "loading"
      /\ column.decision # "none" /\ said' = [said EXCEPT ![column.id].how = "applied"]
  BY <1>1 DEF ApplyRecorded, ApprovalShapes, Matches, Survives
<1>3. caller'[c].call = caller[c].call /\ caller'[c].outcome =
          IF column.decision = "yes" THEN "approved" ELSE "declined"
  BY <1>2 DEF Told
<1>4. /\ lastCard \in Ids /\ column.id = lastCard
      /\ column.preview = PreviewOf[askedFor[lastCard].call]
      /\ column.asked = askedFor[lastCard].asked
      /\ column.decision \in {"yes", "no"}
      /\ said[lastCard].answer = column.decision /\ said[lastCard].how = "recorded"
  BY <1>1, <1>2 DEF ColumnIsOnRecord, Decisions
<1>5. said'[lastCard].how = "applied"  BY <1>1, <1>2, <1>4 DEF ApprovalShapes
<1>6. lastCard # 0  BY <1>4 DEF Ids
<1>7. ByRecord(c, column.decision)  BY <1>2, <1>3, <1>4, <1>5, <1>6 DEF ByRecord
<1> QED BY <1>3, <1>4, <1>7

\* A call that loads the bridge is told a recorded answer or waits on its card.
LEMMA ToldByLoading ==
    ASSUME ApprovalInv, CardNext, NEW c \in Callers,
           caller[c].at = "loading", caller'[c].at = "told"
    PROVE  ByRecord(c, "yes") \/ ByRecord(c, "no")
<1>s. ApprovalShapes  BY DEF ApprovalInv
<1>1. ASSUME NEW d \in Callers, ApplyRecorded(d)
      PROVE  ByRecord(c, "yes") \/ ByRecord(c, "no")
  <2>1. d = c  BY <1>s, <1>1 DEF ApplyRecorded, ApprovalShapes
  <2> QED BY <1>1, <2>1, AppliesTheRecord
<1>2. ASSUME NEW d \in Callers, NEW y \in Calls, Request(d, y) PROVE FALSE
  BY <1>s, <1>2 DEF Request, ApprovalShapes, Idle
<1>3. ASSUME NEW d \in Callers, PutUpCard(d) \/ Return(d) PROVE FALSE
  BY <1>s, <1>3 DEF PutUpCard, Return, ApprovalShapes, Waiting, Idle
<1>4. ASSUME NEW ids, NEW outcome, Settle(ids, outcome) PROVE FALSE
  BY <1>s, <1>4 DEF Settle
<1>5. ~(\E id \in Ids, yes \in BOOLEAN : RecordAnswer(id, yes)) /\ ~SweepColumn
      /\ ~Restart /\ ~ClockTick
  BY DEF RecordAnswer, SweepColumn, Restart, ClockTick, Idle
<1> QED BY <1>1, <1>2, <1>3, <1>4, <1>5
        DEF CardNext, Ask, Answer, Click, TimesOut, UserReplies

\* What a call is told: a refusal on record, a recorded answer or the outcome
\* of its card, and only a click or a recorded answer speaks for the user.
LEMMA ToldByUser ==
    ASSUME ApprovalInv, CardNext, NEW c \in Callers,
           caller[c].at # "told", caller'[c].at = "told"
    PROVE  /\ caller'[c].outcome = "approved" => ByClick(c, "yes") \/ ByRecord(c, "yes")
           /\ caller'[c].outcome = "declined" =>
                 ByClick(c, "no") \/ ByRecord(c, "no") \/ ByReplay(c)
<1> DEFINE Goal == /\ caller'[c].outcome = "approved" =>
                         ByClick(c, "yes") \/ ByRecord(c, "yes")
                   /\ caller'[c].outcome = "declined" =>
                         ByClick(c, "no") \/ ByRecord(c, "no") \/ ByReplay(c)
<1>s. ApprovalShapes /\ CardsAreOnRecord /\ ColumnIsOnRecord /\ RefusalsAreOnRecord
  BY DEF ApprovalInv
<1>1. ASSUME NEW d \in Callers, NEW y \in Calls, Request(d, y) PROVE Goal
  <2>1. d = c  BY <1>s, <1>1 DEF Request, ApprovalShapes
  <2>2. /\ caller'[c] = Told(y, suppressed[y].reason) /\ Refused(y)
        /\ caller[c] = Idle
    BY <1>s, <1>1, <2>1 DEF Request, ApprovalShapes, Waiting, Asking
  <2>3. caller'[c].call = y /\ caller'[c].outcome = suppressed[y].reason
    BY <2>2 DEF Told
  <2>4. suppressed[y].reason = "declined" => ByReplay(c)
    BY <1>s, <2>2, <2>3 DEF RefusalsAreOnRecord, Declined, ByReplay, Refused, Idle
  <2>5. suppressed[y].reason # "approved"
    BY <1>s DEF RefusalsAreOnRecord, Reasons
  <2> QED BY <2>3, <2>4, <2>5
<1>2. ASSUME NEW d \in Callers, ApplyRecorded(d) PROVE Goal
  <2>1. d = c  BY <1>s, <1>2 DEF ApplyRecorded, ApprovalShapes
  <2>2. /\ ByRecord(c, column.decision) /\ column.decision \in {"yes", "no"}
        /\ caller'[c].outcome = IF column.decision = "yes" THEN "approved" ELSE "declined"
    BY <1>2, <2>1, AppliesTheRecord
  <2> QED BY <2>2
<1>3. ASSUME NEW ids, NEW outcome, Settle(ids, outcome)
      PROVE  /\ caller[c].at = "waiting" /\ caller[c].card \in ids
             /\ caller'[c] = Told(CardOf(caller[c].card).call, outcome)
  BY <1>s, <1>3 DEF Settle
<1>4. ASSUME NEW id \in Ids, NEW yes \in BOOLEAN, Click(id, yes) PROVE Goal
  <2>1. /\ Settle({id}, IF yes THEN "approved" ELSE "declined") /\ Live(id)
        /\ said' = [said EXCEPT ![id] = Said(Yes(yes), "clicked")]
    BY <1>4 DEF Click
  <2>2. /\ caller'[c] = Told(CardOf(id).call, IF yes THEN "approved" ELSE "declined")
        /\ caller[c].at = "waiting" /\ caller[c].card = id
    BY <1>3, <2>1
  <2>3. /\ caller'[c].call = CardOf(id).call
        /\ caller'[c].outcome = IF yes THEN "approved" ELSE "declined"
    BY <2>2 DEF Told
  <2>4. askedFor[id].call = CardOf(id).call  BY <1>s, <2>1, CardOfLive
  <2>5. said'[id] = Said(Yes(yes), "clicked")  BY <1>s, <2>1 DEF ApprovalShapes
  <2>6. ByClick(c, Yes(yes))  BY <2>2, <2>3, <2>4, <2>5 DEF ByClick
  <2> QED BY <2>3, <2>6 DEF Yes
<1>5. ASSUME NEW ids, NEW outcome \in {"timeout", "superseded"}, Settle(ids, outcome)
      PROVE  Goal
  <2>1. caller'[c] = Told(CardOf(caller[c].card).call, outcome)  BY <1>3, <1>5
  <2>2. caller'[c].outcome = outcome  BY <2>1 DEF Told
  <2> QED BY <1>5, <2>2
<1>6. ASSUME NEW d \in Callers, PutUpCard(d) \/ Return(d) PROVE FALSE
  BY <1>s, <1>6 DEF PutUpCard, Return, ApprovalShapes, Waiting, Idle
<1>7. ~(\E id \in Ids, yes \in BOOLEAN : RecordAnswer(id, yes)) /\ ~SweepColumn
      /\ ~Restart /\ ~ClockTick
  BY DEF RecordAnswer, SweepColumn, Restart, ClockTick, Idle
<1> QED BY <1>1, <1>2, <1>4, <1>5, <1>6, <1>7
        DEF CardNext, Ask, Answer, TimesOut, UserReplies

\* approval-manager and the durable column, with any number of calls, cards and
\* restarts: while the newest card is up, the column names it.
THEOREM NewestAskSurvives == CardSpec => []NewestAskIsDurable
<1>1. CardInit => NewestAskIsDurable  BY ApprovalInvInit
<1>2. NewestAskIsDurable /\ [CardNext]_cardVars => NewestAskIsDurable'
  BY NewestStep DEF cardVars, NewestAskIsDurable, Live
<1> QED BY <1>1, <1>2, PTL DEF CardSpec

\* requestApprovalDetailed, resolveApproval and resolveDurableApproval: no call is
\* told approved, or declined, but on the user's own answer: clicked on its card,
\* recorded on the newest ask of its preview, or a fresh no to the same call.
THEOREM NobodySpeaksForTheUser == CardSpec => OutcomesAreTheUsers
<1>1. CardInit => ApprovalInv  BY ApprovalInvInit
<1>2. ApprovalInv /\ [CardNext]_cardVars => ApprovalInv'  BY ApprovalInvStep
<1> DEFINE Users ==
        \A c \in Callers :
         (caller[c].at # "told" /\ caller'[c].at = "told") =>
            /\ caller'[c].outcome = "approved" => ByClick(c, "yes") \/ ByRecord(c, "yes")
            /\ caller'[c].outcome = "declined" =>
                  ByClick(c, "no") \/ ByRecord(c, "no") \/ ByReplay(c)
<1>3. ApprovalInv /\ [CardNext]_cardVars => [Users]_cardVars
  BY ToldByUser
<1> QED BY <1>1, <1>2, <1>3, PTL DEF CardSpec, OutcomesAreTheUsers

-----------------------------------------------------------------------------
(* Types of the cards.  What a call asks, waits on or was told is fixed by  *)
(* its shape; a settlement is typed because it names live cards only.       *)

\* The types of the calls and of what outlives a card.
Card == [id : Ids, call : Calls, asked : 0..MaxTime]
Column == [id : Ids, preview : Previews, asked : 0..MaxTime, decision : Decisions]
Words == [answer : Decisions, at : 0..MaxTime,
          how : {"none", "clicked", "recorded", "applied"}]
Asks == [call : Calls \cup {"none"}, asked : 0..MaxTime]
Refusal == [reason : Reasons, at : 0..MaxTime]
Progress == {Idle} \cup {Asking(x) : x \in Calls} \cup {Waiting(id) : id \in Ids}
              \cup {Told(x, o) : x \in Calls, o \in Outcomes}

\* A call that loads the bridge asks for a call, one that waits, waits on an id.
LEMMA CallersAt ==
    ASSUME NEW s \in Progress
    PROVE  /\ s.at = "loading" => s.call \in Calls
           /\ s.at = "waiting" => s.card \in Ids
<1>1. CASE s = Idle  BY <1>1 DEF Idle
<1>2. ASSUME NEW x \in Calls, s = Asking(x)
      PROVE  s.at = "loading" /\ s.call \in Calls
  BY <1>2 DEF Asking
<1>3. ASSUME NEW id \in Ids, s = Waiting(id)
      PROVE  s.at = "waiting" /\ s.card \in Ids
  BY <1>3 DEF Waiting
<1>4. ASSUME NEW x \in Calls, NEW o \in Outcomes, s = Told(x, o) PROVE s.at = "told"
  BY <1>4 DEF Told
<1> QED BY <1>1, <1>2, <1>3, <1>4 DEF Progress

\* A settlement tells those who wait on a card the outcome of its call.
LEMMA SettleTypes ==
    ASSUME CardTypeOK, CardsAreOnRecord, NEW ids, NEW outcome \in Outcomes,
           Settle(ids, outcome), \A id \in ids : Live(id)
    PROVE  /\ caller' \in [Callers -> Progress] /\ cards' \subseteq Card
           /\ inflight' \in [Calls -> 0..MaxCards]
           /\ column' \in {NoColumn} \cup Column
<1>t. /\ caller \in [Callers -> Progress] /\ cards \subseteq Card
      /\ inflight \in [Calls -> 0..MaxCards] /\ column \in {NoColumn} \cup Column
  BY DEF CardTypeOK, Progress, Card, Column
<1>1. cards' \subseteq Card  BY <1>t DEF Settle
<1>2. inflight' \in [Calls -> 0..MaxCards]
  <2>1. inflight' = [x \in Calls |->
           IF \E id \in ids : CardOf(id).call = x THEN 0 ELSE inflight[x]]
    BY DEF Settle
  <2>2. 0 \in 0..MaxCards  BY ApprovalConstants DEF ApprovalConstants
  <2> QED BY <1>t, <2>1, <2>2
<1>3. column' \in {NoColumn} \cup Column
  BY <1>t DEF Settle, ClearsColumn
<1>4. ASSUME NEW c \in Callers PROVE caller'[c] \in Progress
  <2>1. CASE caller[c].at = "waiting" /\ caller[c].card \in ids
    <3>1. caller'[c] = Told(CardOf(caller[c].card).call, outcome)
      BY <2>1 DEF Settle
    <3>2. CardOf(caller[c].card) \in cards  BY <2>1, CardOfLive
    <3>3. CardOf(caller[c].card).call \in Calls  BY <1>t, <3>2 DEF Card
    <3> QED BY <3>1, <3>3 DEF Progress
  <2>2. CASE ~(caller[c].at = "waiting" /\ caller[c].card \in ids)
    <3>1. caller'[c] = caller[c]  BY <2>2 DEF Settle
    <3> QED BY <1>t, <3>1
  <2> QED BY <2>1, <2>2
<1>5. caller' = [c \in Callers |-> caller'[c]]  BY DEF Settle
<1> QED BY <1>1, <1>2, <1>3, <1>4, <1>5

\* The parts of the type invariant that follow once the records are in order.
CardParts ==
    /\ clock \in 0..MaxTime /\ caller \in [Callers -> Progress] /\ cards \subseteq Card
    /\ lastCard \in 0..MaxCards /\ inflight \in [Calls -> 0..MaxCards]
    /\ suppressed \in [Calls -> {NoRefusal} \cup Refusal]
    /\ column \in {NoColumn} \cup Column
    /\ said \in [Ids -> Words]
    /\ askedFor \in [Ids -> Asks] /\ restarts \in 0..MaxRestarts

LEMMA CardPartsSuffice == CardsAreOnRecord => (CardParts <=> CardTypeOK)
BY DEF CardsAreOnRecord, CardParts, CardTypeOK, Progress, Card, Column, Refusal,
       Words, Asks

\* Every step of calls, user, timers and restarts keeps the parts.
LEMMA CardPartsStep ==
    ASSUME ApprovalInv, CardParts, [CardNext]_cardVars PROVE CardParts'
<1>t. /\ clock \in 0..MaxTime /\ caller \in [Callers -> Progress] /\ cards \subseteq Card
      /\ lastCard \in 0..MaxCards /\ inflight \in [Calls -> 0..MaxCards]
      /\ suppressed \in [Calls -> {NoRefusal} \cup Refusal]
      /\ column \in {NoColumn} \cup Column
      /\ said \in [Ids -> Words]
      /\ askedFor \in [Ids -> Asks] /\ restarts \in 0..MaxRestarts
  BY DEF CardParts
<1>r. CardsAreOnRecord /\ CardTypeOK
  <2>1. CardsAreOnRecord  BY DEF ApprovalInv
  <2> QED BY <2>1, CardPartsSuffice
<1>c. MaxTime \in Nat /\ MaxCards \in Nat /\ MaxRestarts \in Nat /\ Window \in Nat
  BY ApprovalConstants DEF ApprovalConstants
<1>i. Ids' = Ids  OBVIOUS
<1>1. ASSUME NEW c \in Callers, NEW x \in Calls, Request(c, x) PROVE CardParts'
  <2> DEFINE next == IF Refused(x) THEN Told(x, suppressed[x].reason)
                     ELSE IF inflight[x] # 0 THEN Waiting(inflight[x]) ELSE Asking(x)
  <2>1. Refused(x) => suppressed[x].reason \in Outcomes
    <3>1. Refused(x) => suppressed[x] \in Refusal  BY <1>t DEF Refused
    <3> QED BY <3>1 DEF Refusal, Outcomes
  <2>2. inflight[x] # 0 => inflight[x] \in Ids  BY <1>t, <1>c DEF Ids
  <2>3. next \in Progress  BY <2>1, <2>2 DEF Progress
  <2>4. caller' = [caller EXCEPT ![c] = next]  BY <1>1 DEF Request
  <2> HIDE DEF next
  <2>5. caller' \in [Callers -> Progress]  BY <1>t, <2>3, <2>4
  <2> QED BY <1>1, <1>t, <2>5 DEF Request, CardParts
<1>2. ASSUME NEW c \in Callers, ApplyRecorded(c) PROVE CardParts'
  <2> DEFINE o == IF column.decision = "yes" THEN "approved" ELSE "declined"
  <2>1. caller[c].call \in Calls
    BY <1>2, <1>t, CallersAt DEF ApplyRecorded
  <2>2. o \in Outcomes  BY DEF Outcomes, Reasons
  <2>3. caller' = [caller EXCEPT ![c] = Told(caller[c].call, o)]
    BY <1>2 DEF ApplyRecorded
  <2> HIDE DEF o
  <2>4. Told(caller[c].call, o) \in Progress  BY <2>1, <2>2 DEF Progress
  <2>5. caller' \in [Callers -> Progress]  BY <1>t, <2>3, <2>4
  <2>6. said' = [said EXCEPT ![column.id].how = "applied"] /\ column \in Column
    BY <1>2, <1>t DEF ApplyRecorded, Matches, Survives
  <2>7. column.id \in Ids  BY <2>6 DEF Column
  <2>8. [said[column.id] EXCEPT !.how = "applied"] \in Words  BY <1>t, <2>7 DEF Words
  <2>9. said' \in [Ids -> Words]  BY <1>t, <2>6, <2>7, <2>8
  <2> QED BY <1>2, <1>t, <2>5, <2>9 DEF ApplyRecorded, CardParts
<1>3. ASSUME NEW c \in Callers, PutUpCard(c) PROVE CardParts'
  <2> DEFINE x == caller[c].call
             id == lastCard + 1
             asked == IF Matches(x) THEN column.asked ELSE clock
  <2>1. x \in Calls  BY <1>3, <1>t, CallersAt DEF PutUpCard
  <2>2. id \in Ids /\ id \in 0..MaxCards
    BY <1>3, <1>c DEF PutUpCard, NextId, Ids
  <2>3. asked \in 0..MaxTime
    <3>1. Matches(x) => column \in Column  BY <1>t DEF Matches, Survives
    <3> QED BY <1>t, <3>1 DEF Column
  <2>4. /\ lastCard' = id /\ cards' = cards \cup {[id |-> id, call |-> x, asked |-> asked]}
        /\ inflight' = [inflight EXCEPT ![x] = id]
        /\ column' = [id |-> id, preview |-> PreviewOf[x], asked |-> asked,
                      decision |-> "none"]
        /\ askedFor' = [askedFor EXCEPT ![id] = [call |-> x, asked |-> asked]]
        /\ caller' = [caller EXCEPT ![c] = Waiting(id)]
        /\ UNCHANGED <<clock, suppressed, said, restarts>>
    BY <1>3 DEF PutUpCard, NextId
  <2> HIDE DEF x, id, asked
  <2>5. [id |-> id, call |-> x, asked |-> asked] \in Card  BY <2>1, <2>2, <2>3 DEF Card
  <2>6. column' \in Column
    BY <2>1, <2>2, <2>3, <2>4 DEF Column, Previews, Decisions
  <2>7. Waiting(id) \in Progress  BY <2>2 DEF Progress
  <2>8. caller' \in [Callers -> Progress]  BY <1>t, <2>4, <2>7
  <2>9. inflight' \in [Calls -> 0..MaxCards]  BY <1>t, <2>2, <2>4
  <2>10. askedFor' \in [Ids -> Asks]
    <3>1. [call |-> x, asked |-> asked] \in Asks  BY <2>1, <2>3 DEF Asks
    <3> QED BY <1>t, <2>2, <2>4, <3>1
  <2> QED BY <1>t, <2>2, <2>4, <2>5, <2>6, <2>8, <2>9, <2>10 DEF CardParts
<1>4. ASSUME NEW c \in Callers, Return(c) PROVE CardParts'
  <2>1. Idle \in Progress /\ caller' = [caller EXCEPT ![c] = Idle]
    BY <1>4 DEF Return, Progress
  <2>2. caller' \in [Callers -> Progress]  BY <1>t, <2>1
  <2> QED BY <1>4, <1>t, <2>2 DEF Return, CardParts
\* What settles a card besides the settlement: a refusal on record or none.
<1>5. ASSUME NEW ids, NEW outcome \in Outcomes, Settle(ids, outcome),
             \A id \in ids : Live(id), UNCHANGED <<clock, lastCard, askedFor, restarts>>,
             said' \in [Ids -> Words],
             suppressed' \in [Calls -> {NoRefusal} \cup Refusal]
      PROVE  CardParts'
  <2>1. /\ caller' \in [Callers -> Progress] /\ cards' \subseteq Card
        /\ inflight' \in [Calls -> 0..MaxCards]
        /\ column' \in {NoColumn} \cup Column
    BY <1>5, <1>r, SettleTypes
  <2> QED BY <1>5, <1>t, <2>1 DEF CardParts
<1>6. ASSUME NEW id \in Ids, NEW yes \in BOOLEAN, Click(id, yes) PROVE CardParts'
  <2> DEFINE outcome == IF yes THEN "approved" ELSE "declined"
             refusal == IF yes THEN NoRefusal ELSE [reason |-> "declined", at |-> clock]
  <2>1. /\ Live(id) /\ Settle({id}, outcome)
        /\ suppressed' = [suppressed EXCEPT ![CardOf(id).call] = refusal]
        /\ said' = [said EXCEPT ![id] = Said(Yes(yes), "clicked")]
        /\ UNCHANGED <<clock, lastCard, askedFor, restarts>>
    BY <1>6 DEF Click
  <2>2. outcome \in Outcomes  BY DEF Outcomes, Reasons
  <2>3. refusal \in {NoRefusal} \cup Refusal  BY <1>t DEF Refusal, Reasons
  <2> HIDE DEF outcome, refusal
  <2>4. suppressed' \in [Calls -> {NoRefusal} \cup Refusal]  BY <1>t, <2>1, <2>3
  <2>5. said' \in [Ids -> Words]
    <3>1. Said(Yes(yes), "clicked") \in Words  BY <1>t DEF Said, Yes, Words, Decisions
    <3> QED BY <1>t, <2>1, <3>1
  <2>6. \A i \in {id} : Live(i)  BY <2>1
  <2> QED BY <1>5, <2>1, <2>2, <2>4, <2>5, <2>6
<1>7. ASSUME NEW id \in Ids, TimesOut(id) PROVE CardParts'
  <2> DEFINE refusal == [reason |-> "timeout", at |-> clock]
  <2>1. /\ Live(id) /\ Settle({id}, "timeout")
        /\ suppressed' = [suppressed EXCEPT ![CardOf(id).call] = refusal]
        /\ UNCHANGED <<clock, lastCard, said, askedFor, restarts>>
    BY <1>7 DEF TimesOut
  <2>2. "timeout" \in Outcomes  BY DEF Outcomes, Reasons
  <2>3. refusal \in {NoRefusal} \cup Refusal  BY <1>t DEF Refusal, Reasons
  <2> HIDE DEF refusal
  <2>4. suppressed' \in [Calls -> {NoRefusal} \cup Refusal]  BY <1>t, <2>1, <2>3
  <2>5. said' \in [Ids -> Words]  BY <1>t, <2>1
  <2>6. \A i \in {id} : Live(i)  BY <2>1
  <2> QED BY <1>5, <2>1, <2>2, <2>4, <2>5, <2>6
<1>8. CASE UserReplies
  <2>1. PICK forgets : suppressed' = [x \in Calls |->
           IF x \in forgets THEN NoRefusal ELSE suppressed[x]]
    BY <1>8 DEF UserReplies
  <2>2. Settle({k.id : k \in cards}, "superseded")
        /\ UNCHANGED <<clock, lastCard, said, askedFor, restarts>>
    BY <1>8 DEF UserReplies
  <2>3. suppressed' \in [Calls -> {NoRefusal} \cup Refusal]  BY <1>t, <2>1
  <2>4. \A i \in {k.id : k \in cards} : Live(i)  BY DEF Live
  <2>5. "superseded" \in Outcomes  BY DEF Outcomes, Reasons
  <2>6. said' \in [Ids -> Words]  BY <1>t, <2>2
  <2> QED BY <1>5, <2>2, <2>3, <2>4, <2>5, <2>6
<1>9. ASSUME NEW id \in Ids, NEW yes \in BOOLEAN, RecordAnswer(id, yes)
      PROVE  CardParts'
  <2>1. UNCHANGED <<clock, caller, cards, lastCard, inflight, suppressed, askedFor, restarts>>
        /\ column \in Column
    BY <1>9, <1>t DEF RecordAnswer, Survives
  <2>2. CASE column' = NoColumn /\ UNCHANGED said
    BY <1>t, <2>1, <2>2 DEF CardParts
  <2>3. CASE /\ column' = [column EXCEPT !.decision = Yes(yes)]
             /\ said' = [said EXCEPT ![id] = Said(Yes(yes), "recorded")]
    <3>1. column' \in Column  BY <2>1, <2>3 DEF Column, Yes, Decisions
    <3>2. said' \in [Ids -> Words]
      <4>1. Said(Yes(yes), "recorded") \in Words
        BY <1>t DEF Said, Yes, Words, Decisions
      <4> QED BY <1>t, <2>3, <4>1
    <3> QED BY <1>t, <2>1, <3>1, <3>2 DEF CardParts
  <2> QED BY <1>9, <2>2, <2>3 DEF RecordAnswer
<1>10. CASE SweepColumn  BY <1>10, <1>t DEF SweepColumn, CardParts
<1>11. CASE Restart
  <2>1. /\ restarts' \in 0..MaxRestarts  BY <1>11, <1>t, <1>c DEF Restart
  <2>2. /\ caller' = [c \in Callers |-> Idle] /\ cards' = {}
        /\ inflight' = [x \in Calls |-> 0] /\ suppressed' = [x \in Calls |-> NoRefusal]
        /\ UNCHANGED <<clock, lastCard, column, said, askedFor>>
    BY <1>11 DEF Restart
  <2>3. caller' \in [Callers -> Progress]  BY <2>2 DEF Progress
  <2>4. inflight' \in [Calls -> 0..MaxCards]  BY <1>c, <2>2
  <2> QED BY <1>t, <2>1, <2>2, <2>3, <2>4 DEF CardParts
<1>12. CASE ClockTick
  <2>1. clock' \in 0..MaxTime  BY <1>12, <1>t, <1>c DEF ClockTick
  <2> QED BY <1>12, <1>t, <2>1 DEF ClockTick, CardParts
<1>13. CASE UNCHANGED cardVars  BY <1>13, <1>t DEF cardVars, CardParts
<1> QED BY <1>1, <1>2, <1>3, <1>4, <1>6, <1>7, <1>8, <1>9, <1>10, <1>11, <1>12, <1>13
        DEF CardNext, Ask, Answer

\* The approval manager and the durable column, with any number of calls, cards
\* and restarts: cards, refusals and the column keep their types.
THEOREM CardTypeCorrect == CardSpec => []CardTypeOK
<1>1. CardInit => ApprovalInv /\ CardParts
  <2>1. CardInit => ApprovalInv  BY ApprovalInvInit
  <2>2. 0 \in 0..MaxTime /\ 0 \in 0..MaxCards /\ 0 \in 0..MaxRestarts
    BY ApprovalConstants DEF ApprovalConstants
  <2>3. CardInit => caller \in [Callers -> Progress]  BY DEF CardInit, Progress
  <2>4. Unsaid \in Words /\ Unasked \in Asks
    BY <2>2 DEF Unsaid, Unasked, Words, Asks, Decisions
  <2>5. CardInit => CardParts  BY <2>2, <2>3, <2>4 DEF CardInit, CardParts
  <2> QED BY <2>1, <2>5
<1>2. ApprovalInv /\ CardParts /\ [CardNext]_cardVars => ApprovalInv' /\ CardParts'
  BY ApprovalInvStep, CardPartsStep
<1>3. ApprovalInv /\ CardParts => CardTypeOK  BY CardPartsSuffice DEF ApprovalInv
<1> QED BY <1>1, <1>2, <1>3, PTL DEF CardSpec

\* Whoever was put up asks for a call.
AskedIsACall == \A id \in Ids : id <= lastCard => askedFor[id].call \in Calls

LEMMA AskedIsACallStep ==
    ASSUME AskedIsACall, CardParts, [CardNext]_cardVars PROVE AskedIsACall'
<1>t. /\ lastCard \in Nat /\ askedFor \in [Ids -> Asks]
      /\ caller \in [Callers -> Progress]
  BY ApprovalConstants DEF CardParts, ApprovalConstants
<1>1. ASSUME NEW c \in Callers, PutUpCard(c) PROVE AskedIsACall'
  <2> DEFINE ask == [call |-> caller[c].call,
                     asked |-> IF Matches(caller[c].call) THEN column.asked ELSE clock]
  <2>1. caller[c].call \in Calls  BY <1>1, <1>t, CallersAt DEF PutUpCard
  <2>2. lastCard' = lastCard + 1 /\ askedFor' = [askedFor EXCEPT ![lastCard + 1] = ask]
    BY <1>1 DEF PutUpCard, NextId
  <2>3. ask.call \in Calls  BY <2>1
  <2> HIDE DEF ask
  <2> QED BY <1>t, <2>2, <2>3 DEF AskedIsACall, Ids
<1>2. ASSUME UNCHANGED <<lastCard, askedFor>> PROVE AskedIsACall'
  BY <1>2 DEF AskedIsACall, Ids
<1> QED BY <1>1, <1>2
        DEF CardNext, Ask, Answer, Request, ApplyRecorded, Return, Click, RecordAnswer,
            TimesOut, UserReplies, SweepColumn, Restart, ClockTick, cardVars

\* approval-durable-record.ts:152-154: what the column keeps of a call is the only
\* way a recorded decision can reach another one.  Were the preview the whole of the
\* arguments, a decision would be applied to the very call it was given for.
THEOREM RecordedForWholePreviews ==
    ASSUME \A x, y \in Calls : PreviewOf[x] = PreviewOf[y] => x = y
    PROVE  CardSpec => RecordedForThisAsk
<1> DEFINE ForThisAsk ==
        \A c \in Callers :
         (caller[c].at = "loading" /\ caller'[c].at = "told") =>
            lastCard # 0 /\ askedFor[lastCard].call = caller[c].call
<1>1. CardSpec => []CardTypeOK  BY CardTypeCorrect
<1>2. CardInit => ApprovalInv /\ AskedIsACall
  BY ApprovalInvInit DEF CardInit, AskedIsACall, Ids
<1>3. CardTypeOK /\ ApprovalInv => CardParts  BY CardPartsSuffice DEF ApprovalInv
<1>4. ApprovalInv /\ CardParts /\ AskedIsACall /\ [CardNext]_cardVars =>
         ApprovalInv' /\ AskedIsACall'
  BY ApprovalInvStep, AskedIsACallStep
<1>5. ApprovalInv /\ CardParts /\ AskedIsACall /\ [CardNext]_cardVars =>
         [ForThisAsk]_cardVars
  <2> SUFFICES ASSUME ApprovalInv, CardParts, AskedIsACall, CardNext,
                      NEW c \in Callers, caller[c].at = "loading", caller'[c].at = "told"
               PROVE  lastCard # 0 /\ askedFor[lastCard].call = caller[c].call
    OBVIOUS
  <2>1. caller[c].call \in Calls /\ lastCard \in 0..MaxCards /\ MaxCards \in Nat
    BY CallersAt, ApprovalConstants DEF CardParts, ApprovalConstants
  <2>2. ByRecord(c, "yes") \/ ByRecord(c, "no")
    BY ToldByLoading DEF ApprovalInv
  <2>3. /\ lastCard # 0
        /\ PreviewOf[askedFor[lastCard].call] = PreviewOf[caller[c].call]
    BY <2>2 DEF ByRecord
  <2>4. askedFor[lastCard].call \in Calls  BY <2>1, <2>3 DEF AskedIsACall, Ids
  <2> QED BY <2>1, <2>3, <2>4
<1> QED BY <1>1, <1>2, <1>3, <1>4, <1>5, PTL DEF CardSpec, RecordedForThisAsk

-----------------------------------------------------------------------------
(* The event log.  A number comes from the file or from a cache keyed to   *)
(* the file's size; the invariant says that a cache is right about any     *)
(* file of the size it was left at, and one process looks at a time.       *)

Frames == [seq : Nat, unheard : SUBSET Clients]

LogShapes == /\ log \in Seq(Frames)
             /\ writing = [p \in Writers |-> writing[p]]
             /\ seqCache = [p \in Writers |-> seqCache[p]]
             /\ \A p \in Writers : seqCache[p].next \in Nat

\* A file of the size a cache was left at has as many frames as it counts.
CachesCount == \A p \in Writers : seqCache[p].size[1] = seqCache[p].next

OneWriter == \A p, q \in Writers : writing[p] # "idle" /\ writing[q] # "idle" => p = q

\* Who is about to append with its cache has the right number in it: nobody
\* else can have appended since it looked.
CachedIsNext ==
    \A p \in Writers : writing[p] = "cached" => seqCache[p].next = Len(log)

LogInv == LogShapes /\ CachesCount /\ OneWriter /\ CachedIsNext /\ Sequenced

\* The log begins empty, and no cache is about it.
LEMMA LogInvInit == ASSUME LogInit PROVE LogInv
<1>1. log = <<>> /\ log \in Seq(Frames) /\ DOMAIN log = {}  BY DEF LogInit
<1> QED BY <1>1 DEF LogInit, LogInv, LogShapes, CachesCount, OneWriter, CachedIsNext,
           Sequenced, NoCache

\* A process in the middle of an emit appends the number that comes next.
LEMMA NumberIsNext ==
    ASSUME LogInv, NEW p \in Writers, writing[p] \in {"cached", "reseed"}
    PROVE  NextNumber(p) = Len(log)
BY DEF LogInv, CachedIsNext, NextNumber

\* A frame at the end with the next number keeps the log sequenced.
LEMMA FrameAtTheEnd ==
    ASSUME log \in Seq(Frames), Sequenced, NEW who \in SUBSET Clients,
           log' = Append(log, [seq |-> Len(log), unheard |-> who])
    PROVE  Sequenced' /\ log' \in Seq(Frames) /\ Len(log') = Len(log) + 1
<1> DEFINE frame == [seq |-> Len(log), unheard |-> who]
<1>1. frame \in Frames  BY DEF Frames
<1>2. /\ log' \in Seq(Frames) /\ Len(log') = Len(log) + 1
      /\ \A i \in 1..Len(log) : log'[i] = log[i]
      /\ log'[Len(log) + 1] = frame
  BY <1>1
<1>3. Sequenced'
  <2>1. \A i \in 1..Len(log) : log[i].seq = i - 1  BY DEF Sequenced
  <2>2. \A i \in 1..Len(log') : i \in 1..Len(log) \/ i = Len(log) + 1  BY <1>2
  <2>3. \A i \in 1..Len(log') : log'[i].seq = i - 1  BY <1>2, <2>1, <2>2
  <2>4. DOMAIN log' = 1..Len(log')  BY <1>2
  <2> QED BY <2>3, <2>4 DEF Sequenced
<1> QED BY <1>2, <1>3

\* Looks, appends, failures, crashes and reconnects keep the caches honest.
LEMMA LogInvStep == ASSUME LogInv, [LogNext]_logVars PROVE LogInv'
<1>s. LogShapes /\ CachesCount /\ OneWriter /\ CachedIsNext /\ Sequenced
  BY DEF LogInv
<1>l. log \in Seq(Frames) /\ Len(log) \in Nat  BY <1>s DEF LogShapes
<1>1. ASSUME NEW p \in Writers, Look(p) PROVE LogInv'
  <2>1. /\ \A q \in Writers : writing[q] = "idle"
        /\ writing' = [writing EXCEPT ![p] = IF CacheHolds(p) THEN "cached" ELSE "reseed"]
        /\ UNCHANGED <<log, seqCache>>
    BY <1>1 DEF Look, LogLockFree
  <2>2. CacheHolds(p) => seqCache[p].next = Len(log)
    BY <1>s DEF CacheHolds, Size, CachesCount
  <2>3. \A q \in Writers : writing'[q] = IF q = p
            THEN (IF CacheHolds(p) THEN "cached" ELSE "reseed") ELSE "idle"
    BY <1>s, <2>1 DEF LogShapes
  <2>4. OneWriter' /\ CachedIsNext'
    BY <2>1, <2>2, <2>3 DEF OneWriter, CachedIsNext
  <2>5. writing' = [q \in Writers |-> writing'[q]]  BY <1>s, <2>1 DEF LogShapes
  <2> QED BY <1>s, <2>1, <2>4, <2>5 DEF LogInv, LogShapes, CachesCount, Sequenced
<1>2. ASSUME NEW p \in Writers, writing' = [writing EXCEPT ![p] = "idle"]
      PROVE  /\ OneWriter' /\ writing' = [q \in Writers |-> writing'[q]]
             /\ \A q \in Writers : writing'[q] # "idle" => writing[q] # "idle" /\ q # p
  BY <1>s, <1>2 DEF LogShapes, OneWriter
<1>3. ASSUME NEW p \in Writers, AppendFrame(p) PROVE LogInv'
  <2> DEFINE who == {c \in Clients : client[c].home \in Writers \ {p}}
  <2>1. /\ writing[p] \in {"cached", "reseed"}
        /\ log' = Append(log, [seq |-> NextNumber(p), unheard |-> who])
        /\ seqCache' = [seqCache EXCEPT ![p] = [next |-> NextNumber(p) + 1,
                                                size |-> <<Len(log) + 1, FALSE>>]]
        /\ writing' = [writing EXCEPT ![p] = "idle"]
    BY <1>3 DEF AppendFrame
  <2>2. NextNumber(p) = Len(log)  BY <2>1, NumberIsNext
  <2>3. Sequenced' /\ log' \in Seq(Frames)
    BY <1>s, <1>l, <2>1, <2>2, FrameAtTheEnd
  <2> DEFINE cached == [next |-> Len(log) + 1, size |-> <<Len(log) + 1, FALSE>>]
  <2>4. /\ seqCache' = [q \in Writers |-> seqCache'[q]]
        /\ \A q \in Writers : seqCache'[q].next \in Nat
                              /\ seqCache'[q].size[1] = seqCache'[q].next
    <3>1. seqCache' = [seqCache EXCEPT ![p] = cached]  BY <2>1, <2>2
    <3>2. cached.next = Len(log) + 1 /\ cached.size = <<Len(log) + 1, FALSE>>  OBVIOUS
    <3>3. cached.size[1] = cached.next /\ cached.next \in Nat  BY <1>l, <3>2
    <3> HIDE DEF cached
    <3>4. /\ seqCache' = [q \in Writers |-> seqCache'[q]]
          /\ \A q \in Writers : seqCache'[q] = IF q = p THEN cached ELSE seqCache[q]
      BY <1>s, <3>1 DEF LogShapes
    <3> QED BY <1>s, <3>3, <3>4 DEF LogShapes, CachesCount
  <2>5. \A q \in Writers : writing'[q] = "idle"
    BY <1>s, <1>2, <2>1 DEF OneWriter
  <2>6. CachedIsNext'  BY <2>5 DEF CachedIsNext
  <2> QED BY <1>2, <2>1, <2>3, <2>4, <2>6 DEF LogInv, LogShapes, CachesCount
<1>4. ASSUME NEW p \in Writers, SyncFails(p) PROVE LogInv'
  <2>1. PICK who \in SUBSET Clients :
            log' = Append(log, [seq |-> NextNumber(p), unheard |-> who])
    BY <1>4 DEF SyncFails
  <2>2. /\ writing[p] \in {"cached", "reseed"} /\ seqCache' = seqCache
        /\ writing' = [writing EXCEPT ![p] = "idle"]
    BY <1>4 DEF SyncFails
  <2>3. NextNumber(p) = Len(log)  BY <2>2, NumberIsNext
  <2>4. Sequenced' /\ log' \in Seq(Frames)
    BY <1>s, <1>l, <2>1, <2>3, FrameAtTheEnd
  <2>5. \A q \in Writers : writing'[q] = "idle"
    BY <1>s, <1>2, <2>2 DEF OneWriter
  <2>6. CachedIsNext'  BY <2>5 DEF CachedIsNext
  <2> QED BY <1>s, <1>2, <2>2, <2>4, <2>6 DEF LogInv, LogShapes, CachesCount
<1>5. ASSUME NEW p \in Writers, AppendFails(p) PROVE LogInv'
  <2>1. UNCHANGED <<log, seqCache>> /\ writing' = [writing EXCEPT ![p] = "idle"]
    BY <1>5 DEF AppendFails
  <2>2. CachedIsNext'  BY <1>s, <1>2, <2>1 DEF CachedIsNext, LogShapes
  <2> QED BY <1>s, <1>2, <2>1, <2>2 DEF LogInv, LogShapes, CachesCount, Sequenced
<1>6. ASSUME NEW p \in Writers, WriterDies(p) PROVE LogInv'
  <2>1. /\ log' = log /\ writing' = [writing EXCEPT ![p] = "idle"]
        /\ seqCache' = [seqCache EXCEPT ![p] = NoCache]
    BY <1>6 DEF WriterDies
  <2>2. /\ seqCache' = [q \in Writers |-> seqCache'[q]]
        /\ \A q \in Writers : seqCache'[q] = IF q = p THEN NoCache ELSE seqCache[q]
    BY <1>s, <2>1 DEF LogShapes
  <2>3. \A q \in Writers : seqCache'[q].next \in Nat
                           /\ seqCache'[q].size[1] = seqCache'[q].next
    <3>1. NoCache.next = 0 /\ NoCache.size = <<0, TRUE>>  BY DEF NoCache
    <3>2. NoCache.size[1] = 0  BY <3>1
    <3> QED BY <1>s, <2>2, <3>1, <3>2 DEF LogShapes, CachesCount
  <2>4. CachedIsNext'
    BY <1>s, <1>2, <2>1, <2>2 DEF CachedIsNext, LogShapes
  <2> QED BY <1>s, <1>2, <2>1, <2>2, <2>3, <2>4
          DEF LogInv, LogShapes, CachesCount, Sequenced
<1>7. CASE UNCHANGED <<log, writing, seqCache>>
  BY <1>s, <1>7 DEF LogInv, LogShapes, CachesCount, OneWriter, CachedIsNext, Sequenced
<1>8. ASSUME NEW c \in Clients, Detach(c) \/ \E p \in Writers : Reconnect(c, p)
      PROVE  LogInv'
  BY <1>7, <1>8 DEF Detach, Reconnect
<1> QED BY <1>1, <1>3, <1>4, <1>5, <1>6, <1>7, <1>8 DEF LogNext, logVars

\* appendCanonicalEventWithMode in any number of processes: the n-th frame of the
\* log has number n, over torn tails, failed appends and failed syncs, and crashes.
THEOREM EventsAreNumbered == LogSpec => []LogSequenced
<1>1. LogInit => LogInv  BY LogInvInit
<1>2. LogInv /\ [LogNext]_logVars => LogInv'  BY LogInvStep
<1>3. LogInv => LogSequenced  BY DEF LogInv, LogSequenced
<1> QED BY <1>1, <1>2, <1>3, PTL DEF LogSpec

-----------------------------------------------------------------------------
(* readCanonicalEventsSince.  It is a recursive function; what it returns   *)
(* of a sequenced log is shown by giving the function in closed form and    *)
(* comparing the two from 0 on.                                             *)

\* What is left of N frames from number n on, if the frames are numbered 0, 1, 2...
From(i, n) == [k \in 1..(IF n < i THEN i - n ELSE 0) |-> n + k - 1]

LEMMA OverInterval ==
    ASSUME NEW S, NEW n \in Nat, NEW f \in [1..n -> S]
    PROVE  f \in Seq(S) /\ Len(f) = n
OBVIOUS

\* A set that holds 0 and the successor of each of its elements holds 0..N.
LEMMA UpTo ==
    ASSUME NEW N \in Nat, NEW G, 0 \in G, \A i \in 1..N : i - 1 \in G => i \in G
    PROVE  0..N \subseteq G
<1> DEFINE Below(i) == {j \in 0..N : j < i}
           B == {i \in 0..N : i \notin G}
           T == {Below(i) : i \in B}
<1>1. SUFFICES ASSUME B # {} PROVE FALSE  OBVIOUS
<1>2. IsFiniteSet(0..N)  BY FS_Interval
<1>3. IsWellFoundedOn(StrictSubsetOrdering(0..N), FiniteSubsetsOf(0..N))
  BY <1>2, FS_StrictSubsetOrderingWellFounded
<1>4. T \subseteq FiniteSubsetsOf(0..N) /\ T # {}
  <2>1. \A i \in B : Below(i) \in FiniteSubsetsOf(0..N)
    BY <1>2, FS_Subset DEF FiniteSubsetsOf
  <2> QED BY <1>1, <2>1
<1>5. PICK m \in T : \A y \in T : <<y, m>> \notin StrictSubsetOrdering(0..N)
  <2> HIDE DEF T
  <2> QED BY <1>3, <1>4, WFMin
<1>6. PICK i \in B : m = Below(i)  BY <1>5
<1>7. i \in 1..N /\ i - 1 \in B /\ i - 1 \in 0..N
  BY <1>6
<1>8. Below(i - 1) \subseteq Below(i) /\ i - 1 \in Below(i) /\ i - 1 \notin Below(i - 1)
  BY <1>7
<1>9. <<Below(i - 1), m>> \in StrictSubsetOrdering(0..N)
  BY <1>6, <1>8 DEF StrictSubsetOrdering
<1> QED BY <1>5, <1>7, <1>9

\* A bounded set of numbers that is not empty has a largest element.
LEMMA LargestOf ==
    ASSUME NEW N \in Nat, NEW S, S # {}, \A k \in S : k \in Nat /\ k <= N
    PROVE  \E n \in S : \A k \in S : k <= n
<1> DEFINE G == {i \in 0..N : \A k \in S : k <= N - i}
<1>1. SUFFICES ASSUME \A n \in S : \E k \in S : ~(k <= n) PROVE FALSE  OBVIOUS
<1>2. 0 \in G  OBVIOUS
<1>3. ASSUME NEW i \in 1..N, i - 1 \in G PROVE i \in G
  <2>1. N - (i - 1) \notin S
    <3>1. \A k \in S : k <= N - (i - 1)  BY <1>3
    <3> QED BY <1>1, <3>1
  <2>2. \A k \in S : k <= N - (i - 1) /\ k # N - (i - 1) /\ k \in Nat  BY <1>3, <2>1
  <2>3. \A k \in S : k <= N - i  BY <2>2
  <2> QED BY <2>3
<1>4. N \in G
  <2> HIDE DEF G
  <2>1. 0..N \subseteq G  BY <1>2, <1>3, UpTo
  <2> QED BY <2>1
<1>5. S = {0}
  <2>1. \A k \in S : k \in Nat /\ k <= N - N  BY <1>4
  <2> QED BY <2>1
<1> QED BY <1>1, <1>5

\* One frame more.
LEMMA OneMore ==
    ASSUME NEW i \in Nat, i # 0, NEW n \in Nat
    PROVE  From(i, n) = From(i - 1, n) \o (IF i - 1 >= n THEN <<i - 1>> ELSE <<>>)
<1> DEFINE a == From(i - 1, n)
           b == IF i - 1 >= n THEN <<i - 1>> ELSE <<>>
<1>1. a \in Seq(Nat) /\ Len(a) = (IF n < i - 1 THEN i - 1 - n ELSE 0)
  <2> DEFINE l == IF n < i - 1 THEN i - 1 - n ELSE 0
  <2>1. l \in Nat /\ \A k \in 1..l : n + k - 1 \in Nat  OBVIOUS
  <2>2. a \in [1..l -> Nat]  BY <2>1 DEF From
  <2> QED BY <2>1, <2>2, OverInterval
<1>2. From(i, n) \in Seq(Nat) /\ Len(From(i, n)) = (IF n < i THEN i - n ELSE 0)
  <2> DEFINE l == IF n < i THEN i - n ELSE 0
  <2>1. l \in Nat /\ \A k \in 1..l : n + k - 1 \in Nat  OBVIOUS
  <2>2. From(i, n) \in [1..l -> Nat]  BY <2>1 DEF From
  <2> QED BY <2>1, <2>2, OverInterval
<1>3. CASE i - 1 < n
  <2>1. b = <<>> /\ a \o b = a  BY <1>1, <1>3
  <2>2. a = From(i, n)  BY <1>3 DEF From
  <2> QED BY <2>1, <2>2
<1>4. CASE i - 1 >= n
  <2>1. b = <<i - 1>> /\ b \in Seq(Nat) /\ Len(b) = 1 /\ b[1] = i - 1  BY <1>4
  <2> HIDE DEF a, b
  <2>2. a \o b \in Seq(Nat) /\ Len(a \o b) = Len(a) + 1
    BY <1>1, <2>1
  <2>3. Len(a \o b) = Len(From(i, n))  BY <1>1, <1>2, <1>4, <2>2
  <2>4. ASSUME NEW k \in 1..Len(a \o b) PROVE (a \o b)[k] = From(i, n)[k]
    <3>1. From(i, n)[k] = n + k - 1  BY <1>2, <2>3, <2>4 DEF From
    <3>2. CASE k <= Len(a)
      <4>1. (a \o b)[k] = a[k]  BY <1>1, <2>1, <3>2
      <4>2. a[k] = n + k - 1  BY <1>1, <3>2 DEF From, a
      <4> QED BY <3>1, <4>1, <4>2
    <3>3. CASE k = Len(a) + 1
      <4>1. (a \o b)[k] = i - 1  BY <1>1, <2>1, <3>3
      <4>2. Len(a) = i - 1 - n  BY <1>1, <1>4
      <4> QED BY <3>1, <3>3, <4>1, <4>2
    <3> QED BY <1>1, <2>2, <3>2, <3>3
  <2>5. a \o b = From(i, n)  BY <1>2, <2>2, <2>3, <2>4, SeqEqual
  <2> QED BY <2>5 DEF a, b
<1> QED BY <1>3, <1>4

\* readCanonicalEventsSince on a sequenced log.
LEMMA SinceIsTail ==
    ASSUME log \in Seq([seq : Nat, unheard : SUBSET Clients]), Sequenced, NEW n \in Nat
    PROVE  Since(n) = From(Len(log), n)
<1> DEFINE L == Len(log)
           Body(F, i) == IF i = 0 THEN <<>>
                         ELSE F[i - 1] \o (IF log[i].seq >= n THEN <<log[i].seq>> ELSE <<>>)
           G == [i \in 0..L |-> From(i, n)]
           Kept == CHOOSE F : F = [i \in 0..L |-> Body(F, i)]
<1>1. L \in Nat /\ \A i \in 1..L : log[i].seq = i - 1  BY DEF Sequenced
<1>0. From(0, n) = <<>>  BY DEF From
<1>2. \A i \in 0..L : G[i] = Body(G, i)
  <2>1. ASSUME NEW i \in 0..L, i # 0 PROVE G[i] = Body(G, i)
    <3>1. i \in Nat /\ i - 1 \in 0..L /\ log[i].seq = i - 1  BY <1>1, <2>1
    <3>2. G[i - 1] = From(i - 1, n) /\ G[i] = From(i, n)  BY <3>1
    <3> QED BY <2>1, <3>1, <3>2, OneMore
  <2> QED BY <1>0, <1>1, <2>1
<1>3. G = [i \in 0..L |-> Body(G, i)]
  <2>1. G = [i \in 0..L |-> G[i]]  OBVIOUS
  <2> HIDE DEF G
  <2> QED BY <1>2, <2>1
<1>4. ASSUME NEW F, F = [i \in 0..L |-> Body(F, i)] PROVE F = G
  <2> DEFINE Same == {i \in 0..L : F[i] = G[i]}
  <2>1. 0 \in Same  BY <1>0, <1>1, <1>4
  <2>2. ASSUME NEW i \in 1..L, i - 1 \in Same PROVE i \in Same
    <3>1. i \in 0..L /\ i # 0  BY <1>1
    <3>2. F[i] = Body(F, i)  BY <1>4, <3>1
    <3>3. F[i - 1] = G[i - 1]  BY <2>2
    <3>4. Body(F, i) = Body(G, i)  BY <3>1, <3>3
    <3> QED BY <1>2, <3>1, <3>2, <3>4
  <2>3. 0..L \subseteq Same
    <3> HIDE DEF Same
    <3> QED BY <1>1, <2>1, <2>2, UpTo
  <2>4. F = [i \in 0..L |-> F[i]]  BY <1>4
  <2>5. G = [i \in 0..L |-> G[i]]  OBVIOUS
  <2>6. \A i \in 0..L : F[i] = G[i]  BY <2>3
  <2> HIDE DEF G
  <2> QED BY <2>4, <2>5, <2>6
<1>5. Kept = [i \in 0..L |-> Body(Kept, i)]
  <2> HIDE DEF Body, G
  <2> QED BY <1>3
<1>6. Kept = G  BY <1>4, <1>5
<1>7. Since(n) = Kept[L]  BY DEF Since
<1> HIDE DEF Kept
<1> QED BY <1>1, <1>6, <1>7

-----------------------------------------------------------------------------
(* The clients.  What a client was given tells where its replay resumes;   *)
(* the invariant says that up to there nothing is missing without a reason.*)

Elements(s) == {s[k] : k \in DOMAIN s}
Heard(c) == Elements(client[c].received)

Client == [home : Writers \cup {"none"}, seen : SUBSET Nat, since : Nat,
           received : Seq(Nat)]

ClientShapes == client \in [Clients -> Client]

\* A failed append uses up the next number at most.
BurntAreNear == burnt \subseteq 0..Len(log)

\* A client was given numbers of the log, or numbers that failed appends used up.
Given(c, n) == n < client[c].since \/ \E s \in client[c].seen : n <= s
OnlyGivenOut(c) ==
    /\ \A s \in client[c].seen : s < Len(log) \/ s \in burnt
    /\ client[c].since = 0 \/ client[c].since <= Len(log) \/ client[c].since - 1 \in burnt

\* What it received is on the log, and below what it will ask for next.
ReceivedIsGiven(c) ==
    \A k \in DOMAIN client[c].received :
        client[c].received[k] < Len(log) /\ Given(c, client[c].received[k])

Ascending(c) ==
    LET r == client[c].received IN \A i, k \in DOMAIN r : i < k => r[i] < r[k]

Excused(c, i) == i - 1 \in Heard(c) \/ c \in log[i].unheard \/ i - 1 \in burnt

\* A client lacks no frame without a reason: none at all while it is attached, and
\* none that its next replay passes over while it is not.
NothingSkipped(c) ==
    \A i \in 1..Len(log) :
        client[c].home # "none" \/ Given(c, i - 1) => Excused(c, i)

ClientOK(c) == /\ OnlyGivenOut(c) /\ ReceivedIsGiven(c)
               /\ Ascending(c) /\ NothingSkipped(c)

ClientInv == ClientShapes /\ BurntAreNear /\ \A c \in Clients : ClientOK(c)

LEMMA ClientInvInit == ASSUME LogInit PROVE ClientInv
<1>1. /\ log = <<>> /\ Len(log) = 0 /\ burnt = {}
      /\ client = [c \in Clients |-> Nowhere]
  BY DEF LogInit
<1>2. <<>> \in Seq(Nat) /\ DOMAIN <<>> = {}  OBVIOUS
<1>3. Nowhere \in Client /\ Nowhere.seen = {} /\ Nowhere.since = 0
      /\ Nowhere.received = <<>> /\ Nowhere.home = "none"
  BY <1>2 DEF Nowhere, Client
<1>4. ASSUME NEW c \in Clients PROVE ClientOK(c)
  BY <1>1, <1>2, <1>3 DEF ClientOK, OnlyGivenOut, ReceivedIsGiven, Ascending,
     NothingSkipped
<1> QED BY <1>1, <1>3, <1>4 DEF ClientInv, ClientShapes, BurntAreNear

\* The log and what was burnt only grow.
LogGrows ==
    /\ Len(log') >= Len(log) /\ \A i \in 1..Len(log) : log'[i] = log[i]
    /\ burnt \subseteq burnt'

\* A client that hears nothing, of a log that grows by a frame it need not hear.
LEMMA Unmoved ==
    ASSUME LogShapes, LogShapes', ClientInv, LogGrows, NEW c \in Clients,
           \/ client'[c] = client[c]
           \/ client'[c] = [client[c] EXCEPT !.home = "none"],
           \A i \in (Len(log) + 1)..Len(log') :
               \/ client'[c].home = "none" /\ i = Len(log) + 1
               \/ c \in log'[i].unheard \/ i - 1 \in burnt'
    PROVE  ClientOK(c)' /\ client'[c] \in Client
<1>1. /\ client'[c].seen = client[c].seen /\ client'[c].since = client[c].since
      /\ client'[c].received = client[c].received
      /\ client'[c].home # "none" => client[c].home # "none"
      /\ client[c] \in Client /\ client'[c] \in Client
  BY DEF ClientInv, ClientShapes, Client
<1>2. Len(log) \in Nat /\ Len(log') \in Nat  BY DEF LogShapes
<1>3. ClientOK(c)  BY DEF ClientInv
<1>4. Heard(c)' = Heard(c)  BY <1>1 DEF Heard
<1>5. \A n : Given(c, n)' <=> Given(c, n)  BY <1>1 DEF Given
<1>6. OnlyGivenOut(c)'
  BY <1>1, <1>2, <1>3 DEF ClientOK, OnlyGivenOut, LogGrows, Client
<1>7. ReceivedIsGiven(c)'
  <2>1. ASSUME NEW k \in DOMAIN client'[c].received
        PROVE  client'[c].received[k] < Len(log') /\ Given(c, client[c].received[k])'
    <3>1. k \in DOMAIN client[c].received /\ client[c].received[k] \in Nat
      BY <1>1 DEF Client
    <3>2. client[c].received[k] < Len(log) /\ Given(c, client[c].received[k])
      BY <1>3, <3>1 DEF ClientOK, ReceivedIsGiven
    <3> QED BY <1>1, <1>2, <1>5, <3>1, <3>2 DEF LogGrows
  <2> QED BY <2>1 DEF ReceivedIsGiven
<1>8. Ascending(c)'  BY <1>1, <1>3 DEF ClientOK, Ascending
<1>9. ASSUME NEW i \in 1..Len(log'), client'[c].home # "none" \/ Given(c, i - 1)'
      PROVE  Excused(c, i)'
  <2>1. CASE i <= Len(log)
    BY <1>1, <1>2, <1>3, <1>4, <1>5, <1>9, <2>1
       DEF ClientOK, NothingSkipped, Excused, LogGrows
  <2>2. CASE i > Len(log)
    <3>1. i \in (Len(log) + 1)..Len(log')  BY <1>2, <2>2
    <3>2. CASE c \in log'[i].unheard \/ i - 1 \in burnt'  BY <3>2 DEF Excused
    <3>3. CASE client'[c].home = "none" /\ i = Len(log) + 1
      <4>1. Given(c, Len(log))  BY <1>2, <1>5, <1>9, <3>3
      <4>2. Len(log) \in burnt
        <5>1. burnt \subseteq 0..Len(log) /\ OnlyGivenOut(c)
          BY <1>3 DEF ClientInv, BurntAreNear, ClientOK
        <5>2. CASE Len(log) < client[c].since
          BY <1>1, <1>2, <5>1, <5>2 DEF OnlyGivenOut, Client
        <5>3. ASSUME NEW s \in client[c].seen, Len(log) <= s PROVE Len(log) \in burnt
          BY <1>1, <1>2, <5>1, <5>3 DEF OnlyGivenOut, Client
        <5> QED BY <4>1, <5>2, <5>3 DEF Given
      <4> QED BY <1>2, <3>3, <4>2 DEF Excused, LogGrows
    <3> QED BY <3>1, <3>2, <3>3
  <2> QED BY <1>2, <2>1, <2>2
<1>10. NothingSkipped(c)'  BY <1>9 DEF NothingSkipped
<1> QED BY <1>1, <1>6, <1>7, <1>8, <1>10 DEF ClientOK

\* What a sequence holds with one element more.
LEMMA HeldAfterAppend ==
    ASSUME NEW S, NEW s \in Seq(S), NEW e \in S
    PROVE  Elements(Append(s, e)) = Elements(s) \cup {e}
<1> DEFINE t == Append(s, e)
<1>1. /\ DOMAIN s = 1..Len(s) /\ DOMAIN t = 1..(Len(s) + 1) /\ Len(s) \in Nat
      /\ t[Len(s) + 1] = e
      /\ \A k \in 1..Len(s) : t[k] = s[k]
  OBVIOUS
<1> HIDE DEF t
<1>2. ASSUME NEW k \in DOMAIN t PROVE t[k] \in {s[j] : j \in DOMAIN s} \cup {e}
  <2>1. k \in 1..Len(s) \/ k = Len(s) + 1  BY <1>1
  <2> QED BY <1>1, <2>1
<1>3. ASSUME NEW k \in DOMAIN s PROVE s[k] \in {t[j] : j \in DOMAIN t}
  <2>1. k \in DOMAIN t /\ t[k] = s[k]  BY <1>1
  <2> QED BY <2>1
<1>4. e \in {t[j] : j \in DOMAIN t}
  <2>1. Len(s) + 1 \in DOMAIN t  BY <1>1
  <2> QED BY <1>1, <2>1
<1>5. {t[k] : k \in DOMAIN t} = {s[k] : k \in DOMAIN s} \cup {e}
  BY <1>2, <1>3, <1>4
<1> QED BY <1>5 DEF t, Elements

\* A client takes the frame that is appended while it listens.
LEMMA TakesIt ==
    ASSUME LogShapes, LogShapes', ClientInv, LogGrows, NEW c \in Clients,
           client[c].home # "none", Len(log') = Len(log) + 1,
           client'[c] = [client[c] EXCEPT !.seen = @ \cup {Len(log)},
                                          !.received = Append(@, Len(log))]
    PROVE  ClientOK(c)' /\ client'[c] \in Client
<1> DEFINE r == client[c].received
           L == Len(log)
<1>2. L \in Nat /\ Len(log') = L + 1  BY DEF LogShapes
<1>1. /\ client[c] \in Client /\ r \in Seq(Nat)
      /\ client'[c].seen = client[c].seen \cup {L}
      /\ client'[c].since = client[c].since
      /\ client'[c].received = Append(r, L)
      /\ client'[c].home = client[c].home
  BY DEF ClientInv, ClientShapes, Client
<1>0. client'[c] \in Client  
  <2>1. Append(r, L) \in Seq(Nat)  BY <1>1, <1>2
  <2> QED BY <1>1, <1>2, <2>1 DEF Client
<1>3. ClientOK(c)  BY DEF ClientInv
<1>4. /\ Len(r) \in Nat /\ DOMAIN r = 1..Len(r)
      /\ DOMAIN client'[c].received = 1..(Len(r) + 1)
      /\ \A k \in 1..Len(r) : client'[c].received[k] = r[k] /\ r[k] \in Nat /\ r[k] < L
      /\ client'[c].received[Len(r) + 1] = L
  <2>1. \A k \in DOMAIN r : r[k] < L  BY <1>3 DEF ClientOK, ReceivedIsGiven
  <2>2. Append(r, L) \in Seq(Nat)  BY <1>1, <1>2
  <2> HIDE DEF r, L
  <2> QED BY <1>1, <2>1, <2>2
<1> HIDE DEF r
<1>5. \A n : (Given(c, n) => Given(c, n)') /\ (n <= L => Given(c, n)')
  BY <1>1 DEF Given
<1>6. OnlyGivenOut(c)'
  BY <1>1, <1>2, <1>3 DEF ClientOK, OnlyGivenOut, LogGrows, Client
<1>7. ReceivedIsGiven(c)'
  <2>1. ASSUME NEW k \in 1..(Len(r) + 1)
        PROVE  client'[c].received[k] < Len(log') /\ Given(c, client[c].received[k])'
    <3>1. k \in 1..Len(r) \/ k = Len(r) + 1  BY <1>4
    <3>2. client'[c].received[k] \in Nat /\ client'[c].received[k] <= L
      BY <1>2, <1>4, <3>1
    <3>3. client'[c].received[k] < Len(log')
      <4>1. \A n \in Nat : n <= L => n < Len(log')  BY <1>2
      <4> HIDE DEF L
      <4> QED BY <3>2, <4>1
    <3>4. L \in client'[c].seen  BY <1>1
    <3> QED BY <3>2, <3>3, <3>4 DEF Given
  <2> QED BY <1>4, <2>1 DEF ReceivedIsGiven
<1>8. Ascending(c)'
  <2>1. \A i, k \in 1..Len(r) : i < k => r[i] < r[k]
    BY <1>3, <1>4 DEF ClientOK, Ascending, r
  <2>2. ASSUME NEW i \in 1..(Len(r) + 1), NEW k \in 1..(Len(r) + 1), i < k
        PROVE  client'[c].received[i] < client'[c].received[k]
    <3>1. i \in 1..Len(r) /\ (k \in 1..Len(r) \/ k = Len(r) + 1)  BY <1>4, <2>2
    <3> QED BY <1>2, <1>4, <2>1, <2>2, <3>1
  <2> QED BY <1>4, <2>2 DEF Ascending
<1>9. Heard(c)' = Heard(c) \cup {L}
  <2>1. Heard(c) = Elements(r) /\ Heard(c)' = Elements(Append(r, L))
    BY <1>1 DEF Heard, r
  <2>2. r \in Seq(Nat) /\ L \in Nat  BY <1>1, <1>2
  <2> HIDE DEF L
  <2> QED BY <2>1, <2>2, HeldAfterAppend
<1>10. NothingSkipped(c)'
  <2>1. ASSUME NEW i \in 1..Len(log') PROVE Excused(c, i)'
    <3>1. CASE i \in 1..Len(log)
      <4>1. Excused(c, i)  BY <1>3, <3>1 DEF ClientOK, NothingSkipped
      <4> QED BY <1>9, <3>1, <4>1 DEF Excused, LogGrows
    <3>2. CASE i = Len(log) + 1
      BY <1>2, <1>9, <3>2 DEF Excused
    <3> QED BY <1>2, <3>1, <3>2
  <2> QED BY <2>1 DEF NothingSkipped
<1> QED BY <1>0, <1>6, <1>7, <1>8, <1>10 DEF ClientOK

\* A client takes a number whose frame never lands.
LEMMA TakesBurnt ==
    ASSUME LogShapes, ClientInv, NEW c \in Clients, NEW n \in 0..Len(log),
           log' = log, burnt' = burnt \cup {n}, client[c].home # "none",
           client'[c] = [client[c] EXCEPT !.seen = @ \cup {n}]
    PROVE  ClientOK(c)' /\ client'[c] \in Client
<1>1. /\ client[c] \in Client /\ client'[c] \in Client
      /\ client'[c].seen = client[c].seen \cup {n}
      /\ client'[c].since = client[c].since
      /\ client'[c].received = client[c].received
      /\ client'[c].home = client[c].home
      /\ Len(log) \in Nat /\ n \in Nat
  <2>1. client[c] \in Client /\ Len(log) \in Nat
    BY DEF ClientInv, ClientShapes, LogShapes
  <2>2. n \in Nat  BY <2>1
  <2> QED BY <2>1, <2>2 DEF Client
<1>2. ClientOK(c)  BY DEF ClientInv
<1>3. OnlyGivenOut(c)'  BY <1>1, <1>2 DEF ClientOK, OnlyGivenOut, Client
<1>4. ReceivedIsGiven(c)'  BY <1>1, <1>2 DEF ClientOK, ReceivedIsGiven, Given
<1>5. Ascending(c)'  BY <1>1, <1>2 DEF ClientOK, Ascending
<1>6. NothingSkipped(c)'
  BY <1>1, <1>2 DEF ClientOK, NothingSkipped, Excused, Heard
<1> QED BY <1>1, <1>3, <1>4, <1>5, <1>6 DEF ClientOK

\* One past the largest number a client was given exists and is LastSeen.
LEMMA LastSeenIsLargest ==
    ASSUME LogShapes, ClientInv, NEW c \in Clients
    PROVE  /\ LastSeen(c) \in Nat
           /\ LastSeen(c) = client[c].since \/ LastSeen(c) - 1 \in client[c].seen
           /\ \A n \in Nat : Given(c, n) <=> n < LastSeen(c)
<1> DEFINE given == {client[c].since} \cup {n + 1 : n \in client[c].seen}
           N == Len(log) + 1
<1>1. client[c] \in Client /\ Len(log) \in Nat
  BY DEF ClientInv, ClientShapes, LogShapes
<1>2. OnlyGivenOut(c) /\ burnt \subseteq 0..Len(log)
  BY DEF ClientInv, ClientOK, BurntAreNear
<1>3. N \in Nat /\ given # {} /\ \A g \in given : g \in Nat /\ g <= N
  <2>1. N \in Nat /\ client[c].since \in given  BY <1>1
  <2>2. client[c].since \in Nat /\ client[c].since <= N
    BY <1>1, <1>2 DEF OnlyGivenOut, Client
  <2>3. ASSUME NEW s \in client[c].seen PROVE s + 1 \in Nat /\ s + 1 <= N
    <3>1. s \in Nat  BY <1>1 DEF Client
    <3>2. s < Len(log) \/ s \in 0..Len(log)  BY <1>2 DEF OnlyGivenOut
    <3> QED BY <1>1, <3>1, <3>2
  <2>4. \A g \in given : g = client[c].since \/ \E s \in client[c].seen : g = s + 1
    OBVIOUS
  <2> HIDE DEF given, N
  <2> QED BY <2>1, <2>2, <2>3, <2>4
<1>4. \E n \in given : \A k \in given : k <= n
  <2> HIDE DEF given, N
  <2> QED BY <1>3, LargestOf
<1>5. LastSeen(c) \in given /\ \A k \in given : k <= LastSeen(c)
  <2>1. LastSeen(c) = CHOOSE n \in given : \A k \in given : k <= n
    BY DEF LastSeen
  <2> HIDE DEF given
  <2> QED BY <1>4, <2>1
<1>6. ASSUME NEW n \in Nat PROVE Given(c, n) <=> n < LastSeen(c)
  <2>1. LastSeen(c) \in Nat /\ client[c].since \in given /\ client[c].since \in Nat
    BY <1>1, <1>3, <1>5 DEF Client
  <2>2. ASSUME n < client[c].since PROVE n < LastSeen(c)
    <3>1. client[c].since <= LastSeen(c)  BY <1>5, <2>1
    <3> QED BY <2>1, <2>2, <3>1
  <2>3. ASSUME NEW s \in client[c].seen, n <= s PROVE n < LastSeen(c)
    <3>1. s \in Nat /\ s + 1 \in given  BY <1>1 DEF Client
    <3>2. s + 1 <= LastSeen(c)  BY <1>5, <3>1
    <3> QED BY <2>1, <2>3, <3>1, <3>2
  <2>4. ASSUME n < LastSeen(c) PROVE Given(c, n)
    <3>1. CASE LastSeen(c) = client[c].since  BY <2>4, <3>1 DEF Given
    <3>2. ASSUME NEW s \in client[c].seen, LastSeen(c) = s + 1 PROVE Given(c, n)
      <4>1. s \in Nat  BY <1>1 DEF Client
      <4> QED BY <2>4, <3>2, <4>1 DEF Given
    <3> QED BY <1>5, <3>1, <3>2
  <2>5. ASSUME Given(c, n) PROVE n < LastSeen(c)
    BY <2>2, <2>3, <2>5 DEF Given
  <2> QED BY <2>4, <2>5
<1> QED BY <1>1, <1>3, <1>5, <1>6 DEF Client

\* What a replay from number n on hands over.
LEMMA Replayed ==
    ASSUME LogShapes, Sequenced, NEW n \in Nat
    PROVE  /\ Since(n) \in Seq(Nat)
           /\ Len(Since(n)) = IF n < Len(log) THEN Len(log) - n ELSE 0
           /\ \A k \in 1..Len(Since(n)) : Since(n)[k] = n + k - 1
<1> DEFINE l == IF n < Len(log) THEN Len(log) - n ELSE 0
<1>1. log \in Seq([seq : Nat, unheard : SUBSET Clients]) /\ Len(log) \in Nat
  BY DEF LogShapes, Frames
<1>2. Since(n) = From(Len(log), n)  BY <1>1, SinceIsTail
<1>3. l \in Nat /\ \A k \in 1..l : n + k - 1 \in Nat  BY <1>1
<1>4. Since(n) = [k \in 1..l |-> n + k - 1]  BY <1>2 DEF From
<1> HIDE DEF l
<1>5. Since(n) \in [1..l -> Nat]  BY <1>3, <1>4
<1>6. Since(n) \in Seq(Nat) /\ Len(Since(n)) = l  BY <1>3, <1>5, OverInterval
<1> QED BY <1>4, <1>6 DEF l

\* An ascending sequence continued by consecutive numbers above it.
LEMMA AscendsOn ==
    ASSUME NEW s \in Seq(Nat), NEW t \in Seq(Nat), NEW n \in Nat,
           \A i, k \in DOMAIN s : i < k => s[i] < s[k],
           \A k \in DOMAIN s : s[k] < n,
           \A k \in DOMAIN t : t[k] = n + k - 1
    PROVE  /\ s \o t \in Seq(Nat)
           /\ \A i, k \in DOMAIN (s \o t) : i < k => (s \o t)[i] < (s \o t)[k]
           /\ \A k \in DOMAIN (s \o t) : \/ k \in DOMAIN s /\ (s \o t)[k] = s[k]
                                         \/ \E j \in DOMAIN t : (s \o t)[k] = t[j]
           /\ Elements(s \o t) = Elements(s) \cup Elements(t)
<1> DEFINE u == s \o t
<1>1. /\ Len(s) \in Nat /\ Len(t) \in Nat /\ DOMAIN s = 1..Len(s) /\ DOMAIN t = 1..Len(t)
      /\ u \in Seq(Nat) /\ DOMAIN u = 1..(Len(s) + Len(t))
      /\ \A k \in 1..Len(s) : u[k] = s[k] /\ s[k] \in Nat
      /\ \A k \in 1..Len(t) : u[Len(s) + k] = t[k]
  OBVIOUS
<1> HIDE DEF u
<1>2. ASSUME NEW k \in DOMAIN u
      PROVE  \/ k \in 1..Len(s)
             \/ /\ k - Len(s) \in 1..Len(t) /\ u[k] = t[k - Len(s)]
                /\ u[k] = n + (k - Len(s)) - 1
  <2>1. CASE k > Len(s)
    <3>1. k - Len(s) \in 1..Len(t) /\ Len(s) + (k - Len(s)) = k  BY <1>1, <2>1
    <3>2. u[Len(s) + (k - Len(s))] = t[k - Len(s)]  BY <1>1, <3>1
    <3> QED BY <1>1, <3>1, <3>2
  <2> QED BY <1>1, <2>1
<1>3. ASSUME NEW i \in DOMAIN u, NEW k \in DOMAIN u, i < k PROVE u[i] < u[k]
  <2>1. i \in Nat /\ k \in Nat  BY <1>1
  <2>2. CASE k \in 1..Len(s)
    <3>1. i \in 1..Len(s)  BY <1>1, <1>3, <2>1, <2>2
    <3> QED BY <1>1, <1>3, <2>2, <3>1
  <2>3. CASE k \notin 1..Len(s) /\ i \in 1..Len(s)
    <3>1. u[k] = n + (k - Len(s)) - 1 /\ k - Len(s) \in 1..Len(t)  BY <1>2, <2>3
    <3>2. u[i] < n /\ u[i] \in Nat  BY <1>1, <2>3
    <3> QED BY <1>1, <2>1, <3>1, <3>2
  <2>4. CASE k \notin 1..Len(s) /\ i \notin 1..Len(s)
    <3>1. u[k] = n + (k - Len(s)) - 1 /\ u[i] = n + (i - Len(s)) - 1  BY <1>2, <2>4
    <3> QED BY <1>1, <1>3, <2>1, <3>1
  <2> QED BY <2>2, <2>3, <2>4
<1>4. ASSUME NEW k \in DOMAIN u
      PROVE  (k \in DOMAIN s /\ u[k] = s[k]) \/ \E j \in DOMAIN t : u[k] = t[j]
  BY <1>1, <1>2
<1>5. Elements(u) = Elements(s) \cup Elements(t)
  <2>1. \A k \in DOMAIN u : u[k] \in Elements(s) \cup Elements(t)
    BY <1>4 DEF Elements
  <2>2. ASSUME NEW k \in DOMAIN s PROVE s[k] \in Elements(u)
    <3>1. k \in DOMAIN u /\ u[k] = s[k]  BY <1>1
    <3> QED BY <3>1 DEF Elements
  <2>3. ASSUME NEW k \in DOMAIN t PROVE t[k] \in Elements(u)
    <3>1. Len(s) + k \in DOMAIN u /\ u[Len(s) + k] = t[k]  BY <1>1
    <3> QED BY <3>1 DEF Elements
  <2> QED BY <2>1, <2>2, <2>3 DEF Elements
<1> QED BY <1>1, <1>3, <1>4, <1>5 DEF u

\* reconnectOp: the replay takes up where the client left off, or starts over.
LEMMA ReconnectOK ==
    ASSUME LogShapes, Sequenced, ClientInv, NEW c \in Clients, NEW p \in Writers,
           Reconnect(c, p)
    PROVE  ClientOK(c)' /\ client'[c] \in Client
<1>1. PICK n \in {0, LastSeen(c)} :
          client' = [client EXCEPT ![c] =
             [home |-> p, since |-> n, seen |-> {s \in Numbers : s >= n},
              received |-> (IF n = 0 THEN <<>> ELSE client[c].received) \o Since(n)]]
  BY DEF Reconnect
<1> DEFINE old == IF n = 0 THEN <<>> ELSE client[c].received
           new == Since(n)
           L == Len(log)
<1>2. /\ client[c] \in Client /\ c \in DOMAIN client /\ L \in Nat
      /\ client[c].received \in Seq(Nat) /\ ClientOK(c)
  BY DEF ClientInv, ClientShapes, Client, LogShapes
<1>3. LastSeen(c) \in Nat /\ n \in Nat  BY LastSeenIsLargest
<1>4. /\ client'[c].home = p /\ client'[c].since = n
      /\ client'[c].seen = {s \in Numbers : s >= n}
      /\ client'[c].received = old \o new
      /\ client'[c] = [home |-> p, since |-> n, seen |-> {s \in Numbers : s >= n},
                       received |-> old \o new]
  BY <1>1, <1>2
<1>5. /\ log' = log /\ burnt' = burnt  BY DEF Reconnect
<1>6. Numbers = 0..(L - 1)
  <2>1. DOMAIN log = 1..L /\ \A i \in 1..L : log[i].seq = i - 1
    BY DEF Sequenced, LogShapes
  <2>2. ASSUME NEW s \in 0..(L - 1) PROVE s \in Numbers
    <3>1. s + 1 \in 1..L /\ log[s + 1].seq = s  BY <1>2, <2>1
    <3> QED BY <2>1, <3>1 DEF Numbers
  <2>3. \A s \in Numbers : s \in 0..(L - 1)  BY <1>2, <2>1 DEF Numbers
  <2> QED BY <2>2, <2>3
<1>7. /\ new \in Seq(Nat) /\ Len(new) = (IF n < L THEN L - n ELSE 0)
      /\ DOMAIN new = 1..Len(new) /\ \A k \in DOMAIN new : new[k] = n + k - 1
  <2>1. Since(n) \in Seq(Nat) /\ Len(Since(n)) = (IF n < Len(log) THEN Len(log) - n ELSE 0)
        /\ \A k \in 1..Len(Since(n)) : Since(n)[k] = n + k - 1
    BY <1>3, Replayed
  <2>2. DOMAIN new = 1..Len(new)  BY <2>1
  <2> QED BY <2>1, <2>2
<1>8. /\ old \in Seq(Nat)
      /\ \A i, k \in DOMAIN old : i < k => old[i] < old[k]
      /\ \A k \in DOMAIN old : old[k] < n /\ old[k] < L /\ old[k] \in Nat
  <2>1. CASE n = 0  BY <2>1
  <2>2. CASE n # 0
    <3>1. old = client[c].received /\ n = LastSeen(c)  BY <2>2
    <3>2. Ascending(c) /\ ReceivedIsGiven(c)  BY <1>2 DEF ClientOK
    <3>3. \A k \in DOMAIN old : old[k] \in Nat  BY <1>2, <3>1
    <3>4. \A k \in DOMAIN old : old[k] < n /\ old[k] < L
      BY <3>1, <3>2, <3>3, LastSeenIsLargest DEF ReceivedIsGiven
    <3> QED BY <1>2, <3>1, <3>2, <3>3, <3>4 DEF Ascending
  <2> QED BY <2>1, <2>2
<1> HIDE DEF old, new
<1>9. /\ old \o new \in Seq(Nat)
      /\ \A i, k \in DOMAIN (old \o new) : i < k => (old \o new)[i] < (old \o new)[k]
      /\ \A k \in DOMAIN (old \o new) :
            \/ k \in DOMAIN old /\ (old \o new)[k] = old[k]
            \/ \E j \in DOMAIN new : (old \o new)[k] = new[j]
      /\ Elements(old \o new) = Elements(old) \cup Elements(new)
  BY <1>3, <1>7, <1>8, AscendsOn
<1>10. client'[c] \in Client
  BY <1>3, <1>4, <1>6, <1>9 DEF Client
<1>11. OnlyGivenOut(c)'
  <2>1. \A s \in client'[c].seen : s < Len(log')  BY <1>2, <1>4, <1>5, <1>6
  <2>2. n = 0 \/ n <= L \/ n - 1 \in burnt
    <3>1. CASE n = LastSeen(c)
      BY <1>2, <1>3, <3>1, LastSeenIsLargest DEF ClientOK, OnlyGivenOut, Client
    <3> QED BY <3>1
  <2> QED BY <1>4, <1>5, <2>1, <2>2 DEF OnlyGivenOut
<1>12. ReceivedIsGiven(c)'
  <2>1. ASSUME NEW k \in DOMAIN (old \o new)
        PROVE  (old \o new)[k] < L /\ \/ (old \o new)[k] < n
                                      \/ (old \o new)[k] \in {s \in Numbers : s >= n}
    <3>1. CASE k \in DOMAIN old /\ (old \o new)[k] = old[k]  BY <1>8, <3>1
    <3>2. ASSUME NEW j \in DOMAIN new, (old \o new)[k] = new[j]
          PROVE  (old \o new)[k] < L /\ (old \o new)[k] \in {s \in Numbers : s >= n}
      <4>1. j \in Nat /\ 1 <= j /\ n < L /\ j <= L - n  BY <1>2, <1>3, <1>7, <3>2
      <4>2. n + j - 1 \in 0..(L - 1) /\ n + j - 1 >= n /\ n + j - 1 < L
        BY <1>2, <1>3, <4>1
      <4> QED BY <1>6, <1>7, <3>2, <4>2
    <3> QED BY <1>9, <3>1, <3>2
  <2>2. \A x : x \in client'[c].seen => x \in Nat  BY <1>10 DEF Client
  <2>3. \A x \in Nat : x < n \/ x \in client'[c].seen => Given(c, x)'
    BY <1>4, <2>2 DEF Given
  <2>4. \A k \in DOMAIN (old \o new) : (old \o new)[k] \in Nat  BY <1>9
  <2> HIDE DEF L
  <2>5. ASSUME NEW k \in DOMAIN (old \o new)
        PROVE  (old \o new)[k] < L /\ Given(c, client[c].received[k])'
    <3>1. client'[c].received[k] = (old \o new)[k]  BY <1>4
    <3>2. \/ client'[c].received[k] < client'[c].since
          \/ client'[c].received[k] \in client'[c].seen
             /\ client'[c].received[k] <= client'[c].received[k]
      BY <1>4, <2>1, <2>4, <3>1
    <3> QED BY <2>1, <3>2 DEF Given
  <2> QED BY <1>4, <1>5, <2>5 DEF ReceivedIsGiven, L
<1>13. Ascending(c)'  BY <1>4, <1>9 DEF Ascending
<1>14. ASSUME NEW i \in 1..L PROVE Excused(c, i)'
  <2>1. Heard(c)' = Elements(old) \cup Elements(new)  BY <1>4, <1>9 DEF Heard
  <2>2. CASE i - 1 >= n
    <3>1. i - n \in DOMAIN new  BY <1>2, <1>3, <1>7, <2>2
    <3>2. new[i - n] = i - 1
      <4>1. new[i - n] = n + (i - n) - 1  BY <1>7, <3>1
      <4> QED BY <1>2, <1>3, <4>1
    <3>3. i - 1 \in Elements(new)  BY <3>1, <3>2 DEF Elements
    <3> QED BY <2>1, <3>3 DEF Excused
  <2>3. CASE i - 1 < n
    <3>1. n # 0 /\ n = LastSeen(c) /\ i - 1 \in Nat  BY <1>2, <2>3
    <3>2. old = client[c].received  BY <3>1 DEF old
    <3>3. Given(c, i - 1)  BY <2>3, <3>1, LastSeenIsLargest
    <3>4. Excused(c, i)  BY <1>2, <3>3 DEF ClientOK, NothingSkipped
    <3> QED BY <1>5, <2>1, <3>2, <3>4 DEF Excused, Heard
  <2> QED BY <1>2, <1>3, <2>2, <2>3
<1>15. NothingSkipped(c)'  BY <1>5, <1>14 DEF NothingSkipped
<1> QED BY <1>10, <1>11, <1>12, <1>13, <1>15 DEF ClientOK

\* Appends, failures, crashes and reconnects leave every client in order.
LEMMA ClientInvStep ==
    ASSUME LogInv, LogInv', ClientInv, [LogNext]_logVars PROVE ClientInv'
<1>s. /\ LogShapes /\ LogShapes' /\ Sequenced /\ BurntAreNear
      /\ log \in Seq(Frames) /\ Len(log) \in Nat /\ client \in [Clients -> Client]
  BY DEF LogInv, LogShapes, ClientInv, ClientShapes
<1>q. ASSUME client' = [c \in Clients |-> client'[c]], BurntAreNear',
             \A c \in Clients : ClientOK(c)' /\ client'[c] \in Client
      PROVE  ClientInv'
  <2>1. client' \in [Clients -> Client]  BY <1>q
  <2> QED BY <1>q, <2>1 DEF ClientInv, ClientShapes
<1>1. ASSUME UNCHANGED <<log, burnt>>, client' = [c \in Clients |-> client'[c]],
             \A c \in Clients : client'[c] = client[c]
                                \/ client'[c] = [client[c] EXCEPT !.home = "none"]
      PROVE  ClientInv'
  <2>1. LogGrows /\ (Len(log) + 1)..Len(log') = {}  BY <1>s, <1>1 DEF LogGrows
  <2>2. \A c \in Clients : ClientOK(c)' /\ client'[c] \in Client
    BY <1>s, <1>1, <2>1, Unmoved
  <2> QED BY <1>s, <1>1, <1>q, <2>2 DEF BurntAreNear
<1>2. ASSUME NEW p \in Writers, NEW lands \in BOOLEAN, NEW n \in Nat
      PROVE  \A c \in Clients :
                Published(p, n, lands)[c] =
                   IF client[c].home = p /\ n \notin client[c].seen
                     THEN IF lands
                            THEN [client[c] EXCEPT !.seen = @ \cup {n},
                                                   !.received = Append(@, n)]
                            ELSE [client[c] EXCEPT !.seen = @ \cup {n}]
                     ELSE client[c]
  <2>1. ASSUME NEW c \in Clients PROVE [client[c] EXCEPT !.seen = @ \cup {n}] =
           [client[c] EXCEPT !.seen = @ \cup {n}, !.received = @]
    BY <1>s DEF Client
  <2> QED BY <2>1 DEF Published, Listening
\* A frame is appended by p, and its bus hears it or nobody does.
<1>3. ASSUME NEW p \in Writers, NEW heard \in BOOLEAN, burnt' = burnt,
             log' = Append(log, [seq |-> Len(log), unheard |->
                {c \in Clients : client[c].home \in
                                    (IF heard THEN Writers \ {p} ELSE Writers)}]),
             client' = IF heard THEN Published(p, Len(log), TRUE) ELSE client
      PROVE  ClientInv'
  <2> DEFINE who == {c \in Clients : client[c].home \in
                                    (IF heard THEN Writers \ {p} ELSE Writers)}
             frame == [seq |-> Len(log), unheard |-> who]
  <2>1. frame \in Frames /\ frame.unheard = who  BY <1>s DEF Frames
  <2>2. /\ Len(log') = Len(log) + 1 /\ log'[Len(log) + 1] = frame
        /\ \A i \in 1..Len(log) : log'[i] = log[i]
    <3>1. log' = Append(log, frame)  BY <1>3
    <3> HIDE DEF frame
    <3> QED BY <1>s, <2>1, <3>1
  <2>3. LogGrows  BY <1>s, <1>3, <2>2 DEF LogGrows
  <2>4. log'[Len(log) + 1].unheard = who  BY <2>1, <2>2
  <2>5. client' = [c \in Clients |-> client'[c]]
    BY <1>s, <1>3 DEF Published
  <2>6. ASSUME NEW c \in Clients PROVE ClientOK(c)' /\ client'[c] \in Client
    <3>1. client[c] \in Client /\ client[c].home \in Writers \cup {"none"}
      BY <1>s DEF Client
    <3>2. CASE client'[c] = client[c] /\ \/ client[c].home = "none" \/ c \in who
                                         \/ Len(log) \in burnt
      <4>1. \A i \in (Len(log) + 1)..Len(log') : i = Len(log) + 1  BY <1>s, <2>2
      <4>2. \A i \in (Len(log) + 1)..Len(log') :
               \/ client'[c].home = "none" /\ i = Len(log) + 1
               \/ c \in log'[i].unheard \/ i - 1 \in burnt'
        <5>1. CASE client[c].home = "none"  BY <3>2, <4>1, <5>1
        <5>2. CASE c \in who
          <6>1. c \in log'[Len(log) + 1].unheard  BY <2>4, <5>2
          <6>2. ASSUME NEW i \in (Len(log) + 1)..Len(log') PROVE c \in log'[i].unheard
            <7>1. i = Len(log) + 1  BY <4>1
            <7> QED BY ONLY <6>1, <7>1
          <6> QED BY <6>2
        <5>3. CASE Len(log) \in burnt
          <6>1. \A i \in (Len(log) + 1)..Len(log') : i - 1 = Len(log)  BY <1>s, <4>1
          <6> QED BY <1>3, <5>3, <6>1
        <5> QED BY <3>2, <5>1, <5>2, <5>3
      <4> QED BY <1>s, <2>3, <3>2, <4>2, Unmoved
    <3>3. CASE heard /\ client[c].home = p /\ Len(log) \notin client[c].seen
      <4>1. client'[c] = [client[c] EXCEPT !.seen = @ \cup {Len(log)},
                                           !.received = Append(@, Len(log))]
        BY <1>s, <1>2, <1>3, <3>3
      <4>2. CASE client[c].home # "none"
        BY <1>s, <2>2, <2>3, <4>1, <4>2, TakesIt
      <4> QED BY <3>3, <4>2, NoneIsNoWriter
    <3>4. CASE heard /\ client[c].home = p /\ Len(log) \in client[c].seen
      <4>1. client'[c] = client[c]  BY <1>s, <1>2, <1>3, <3>4
      <4>2. Len(log) \in burnt
        BY <1>s, <3>4 DEF ClientInv, ClientOK, OnlyGivenOut
      <4> QED BY <3>2, <4>1, <4>2
    <3>5. CASE heard /\ client[c].home # p
      <4>1. client'[c] = client[c]  BY <1>s, <1>2, <1>3, <3>5
      <4> QED BY <3>1, <3>2, <3>5, <4>1
    <3>6. CASE ~heard  BY <1>3, <3>1, <3>2, <3>6
    <3> QED BY <3>3, <3>4, <3>5, <3>6
  <2>7. BurntAreNear'  BY <1>s, <1>3, <2>2 DEF BurntAreNear
  <2> QED BY <1>q, <2>5, <2>6, <2>7
<1>4. ASSUME NEW p \in Writers, AppendFrame(p) PROVE ClientInv'
  <2>1. NextNumber(p) = Len(log)  BY <1>4, NumberIsNext DEF AppendFrame
  <2> QED BY <1>3, <1>4, <2>1 DEF AppendFrame
<1>5. ASSUME NEW p \in Writers, SyncFails(p) PROVE ClientInv'
  <2>1. NextNumber(p) = Len(log)  BY <1>5, NumberIsNext DEF SyncFails
  <2> QED BY <1>3, <1>5, <2>1 DEF SyncFails
<1>6. ASSUME NEW p \in Writers, AppendFails(p) PROVE ClientInv'
  <2>1. writing[p] # "idle" /\ log' = log  BY <1>6 DEF AppendFails
  <2>2. CASE UNCHANGED <<client, burnt>>  BY <1>s, <1>1, <2>1, <2>2
  <2>3. ASSUME NEW n \in {NextNumber(p)} \cup (IF writing[p] = "cached" THEN {} ELSE {0}),
               client' = Published(p, n, FALSE), burnt' = burnt \cup {n}
        PROVE  ClientInv'
    <3>1. n \in 0..Len(log)
      <4>1. NextNumber(p) = Len(log)
        BY <1>s DEF NextNumber, LogInv, CachedIsNext
      <4> QED BY <1>s, <2>3, <4>1
    <3>2. BurntAreNear'  BY <1>s, <2>1, <2>3, <3>1 DEF BurntAreNear
    <3>3. client' = [c \in Clients |-> client'[c]]  BY <2>3 DEF Published
    <3>4. ASSUME NEW c \in Clients PROVE ClientOK(c)' /\ client'[c] \in Client
      <4>1. CASE client'[c] = client[c]
        <5>1. LogGrows /\ (Len(log) + 1)..Len(log') = {}
          BY <1>s, <2>1, <2>3 DEF LogGrows
        <5> QED BY <1>s, <4>1, <5>1, Unmoved
      <4>2. CASE client[c].home = p
                 /\ client'[c] = [client[c] EXCEPT !.seen = @ \cup {n}]
        BY <1>s, <2>1, <2>3, <3>1, <4>2, TakesBurnt, NoneIsNoWriter
      <4>3. n \in Nat  BY <1>s, <3>1
      <4> QED BY <1>2, <2>3, <4>1, <4>2, <4>3
    <3> QED BY <1>q, <3>2, <3>3, <3>4
  <2> QED BY <1>6, <2>2, <2>3 DEF AppendFails
<1>7. ASSUME NEW p \in Writers, WriterDies(p) PROVE ClientInv'
  BY <1>1, <1>7 DEF WriterDies, Listening
<1>8. ASSUME NEW c \in Clients, Detach(c) PROVE ClientInv'
  <2>1. UNCHANGED <<log, burnt>> /\ client' = [client EXCEPT ![c].home = "none"]
    BY <1>8 DEF Detach
  <2>2. /\ client' = [d \in Clients |-> client'[d]]
        /\ \A d \in Clients : client'[d] = client[d]
                              \/ client'[d] = [client[d] EXCEPT !.home = "none"]
    BY <1>s, <2>1
  <2> QED BY <1>1, <2>1, <2>2
<1>9. ASSUME NEW c \in Clients, NEW p \in Writers, Reconnect(c, p) PROVE ClientInv'
  <2>1. UNCHANGED <<log, burnt>> /\ client' = [client EXCEPT ![c] = client'[c]]
    BY <1>s, <1>9 DEF Reconnect
  <2>2. ClientOK(c)' /\ client'[c] \in Client  BY <1>s, <1>9, ReconnectOK
  <2>3. LogGrows /\ (Len(log) + 1)..Len(log') = {}  BY <1>s, <2>1 DEF LogGrows
  <2>4. ASSUME NEW d \in Clients, d # c PROVE ClientOK(d)' /\ client'[d] \in Client
    <3>1. client'[d] = client[d]  BY <1>s, <2>1, <2>4
    <3> QED BY <1>s, <2>3, <3>1, Unmoved
  <2>5. client' = [d \in Clients |-> client'[d]]
    <3>1. DOMAIN client = Clients  BY <1>s
    <3> QED BY <1>s, <1>9, <3>1 DEF Reconnect
  <2>6. BurntAreNear'  BY <1>s, <2>1 DEF BurntAreNear
  <2> QED BY <1>q, <2>2, <2>4, <2>5, <2>6
<1>10. CASE UNCHANGED <<log, client, burnt>>  BY <1>s, <1>1, <1>10
<1>11. ASSUME NEW p \in Writers, Look(p) PROVE ClientInv'
  BY <1>10, <1>11 DEF Look
<1> QED BY <1>4, <1>5, <1>6, <1>7, <1>8, <1>9, <1>10, <1>11 DEF LogNext, logVars

\* What the invariant says of an attached client is what the clients are promised.
LEMMA ClientsAreServed == ASSUME LogInv, ClientInv PROVE ReceivedInOrder
<1>1. Sequenced /\ Len(log) \in Nat /\ DOMAIN log = 1..Len(log)
  BY DEF LogInv, LogShapes
<1>2. ASSUME NEW c \in Clients
      PROVE  /\ \A i, k \in DOMAIN client[c].received :
                    i < k => client[c].received[i] < client[c].received[k]
             /\ client[c].home # "none" =>
                  \A i \in DOMAIN log : log[i].seq \in Elements(client[c].received)
                     \/ c \in log[i].unheard \/ log[i].seq \in burnt
  BY <1>1 DEF ClientInv, ClientOK, Ascending, NothingSkipped, Excused, Heard, Sequenced
<1> QED BY <1>2 DEF ReceivedInOrder, Elements

\* reconnectOp and the bus, over any number of processes, clients, reconnects and
\* mishaps: a client receives in order, once, and misses nothing but the named.
THEOREM ClientsMissNothing == LogSpec => []ReceivedInOrder
<1>1. LogInit => LogInv /\ ClientInv  BY LogInvInit, ClientInvInit
<1>2. LogInv /\ ClientInv /\ [LogNext]_logVars => LogInv' /\ ClientInv'
  BY LogInvStep, ClientInvStep
<1>3. LogInv /\ ClientInv => ReceivedInOrder  BY ClientsAreServed
<1> QED BY <1>1, <1>2, <1>3, PTL DEF LogSpec

-----------------------------------------------------------------------------
(* Types of the log.  The numbers are bounded because the frames are; the   *)
(* rest is what the two invariants already say, read against that bound.    *)

\* An emit that has looked has room for its frame.
LogBounded ==
    /\ Len(log) <= MaxEvents /\ torn \in BOOLEAN /\ mishaps \in 0..MaxMishaps
    /\ \A p \in Writers : /\ writing[p] \in {"idle", "cached", "reseed"}
                          /\ writing[p] # "idle" => Len(log) < MaxEvents
                          /\ seqCache[p] \in [next : Seqs, size : Seqs \X BOOLEAN]

\* What a cache is left at.
LEMMA CacheLeft ==
    ASSUME NEW n \in Seqs, NEW dirty \in BOOLEAN
    PROVE  [next |-> n, size |-> <<n, dirty>>] \in [next : Seqs, size : Seqs \X BOOLEAN]
<1>1. <<n, dirty>> \in Seqs \X BOOLEAN  OBVIOUS
<1> QED BY <1>1

\* Every step of writers and clients keeps the log within its bound.
LEMMA LogBoundedStep ==
    ASSUME LogInv, LogBounded, [LogNext]_logVars PROVE LogBounded'
<1>s. /\ LogShapes /\ CachesCount /\ OneWriter /\ log \in Seq(Frames)
      /\ Len(log) \in Nat /\ MaxEvents \in Nat /\ MaxMishaps \in Nat
      /\ writing = [p \in Writers |-> writing[p]]
      /\ seqCache = [p \in Writers |-> seqCache[p]]
  BY LogConstants DEF LogInv, LogShapes, LogConstants
<1>b. /\ Len(log) <= MaxEvents /\ torn \in BOOLEAN /\ mishaps \in 0..MaxMishaps
      /\ \A p \in Writers : /\ writing[p] \in {"idle", "cached", "reseed"}
                            /\ writing[p] # "idle" => Len(log) < MaxEvents
                            /\ seqCache[p] \in [next : Seqs, size : Seqs \X BOOLEAN]
  BY DEF LogBounded
<1>m. mishaps < MaxMishaps => mishaps + 1 \in 0..MaxMishaps  BY <1>s, <1>b
<1>0. Seqs' = Seqs  OBVIOUS
\* A process finishes its emit, and no other had looked.
<1>1. ASSUME NEW p \in Writers, writing[p] # "idle",
             writing' = [writing EXCEPT ![p] = "idle"]
      PROVE  \A q \in Writers : writing'[q] = "idle"
  BY <1>s, <1>1 DEF OneWriter
<1>2. ASSUME NEW p \in Writers, Look(p) PROVE LogBounded'
  <2>1. /\ Len(log) < MaxEvents
        /\ writing' = [writing EXCEPT ![p] = IF CacheHolds(p) THEN "cached" ELSE "reseed"]
        /\ UNCHANGED <<log, torn, seqCache, mishaps>>
    BY <1>2 DEF Look
  <2>2. \A q \in Writers : writing'[q] \in {"cached", "reseed", writing[q]}
    BY <1>s, <2>1
  <2> QED BY <1>b, <2>1, <2>2 DEF LogBounded
<1>3. ASSUME NEW p \in Writers, AppendFrame(p) PROVE LogBounded'
  <2> DEFINE frame == [seq |-> NextNumber(p), unheard |->
                          {c \in Clients : client[c].home \in Writers \ {p}}]
             cached == [next |-> NextNumber(p) + 1, size |-> <<Len(log) + 1, FALSE>>]
  <2>1. /\ writing[p] \in {"cached", "reseed"} /\ log' = Append(log, frame)
        /\ torn' = FALSE /\ seqCache' = [seqCache EXCEPT ![p] = cached]
        /\ writing' = [writing EXCEPT ![p] = "idle"] /\ mishaps' = mishaps
    BY <1>3, Zenon DEF AppendFrame
  <2>2. NextNumber(p) = Len(log)  BY <2>1, NumberIsNext
  <2>3. Len(log) < MaxEvents  BY <1>b, <2>1
  <2>4. cached \in [next : Seqs, size : Seqs \X BOOLEAN]
    <3>1. Len(log) + 1 \in Seqs /\ FALSE \in BOOLEAN  BY <1>s, <2>3 DEF Seqs
    <3> QED BY <2>2, <3>1, CacheLeft
  <2>9. torn' \in BOOLEAN  BY <2>1
  <2>5. frame \in Frames  BY <1>s, <2>2 DEF Frames
  <2> HIDE DEF frame, cached
  <2>6. Len(log') = Len(log) + 1  BY <1>s, <2>1, <2>5
  <2>7. \A q \in Writers : seqCache'[q] \in [next : Seqs, size : Seqs \X BOOLEAN]
    BY <1>s, <1>b, <2>1, <2>4
  <2>8. \A q \in Writers : writing'[q] = "idle"  BY <1>1, <2>1
  <2> QED BY <1>s, <1>b, <2>1, <2>3, <2>6, <2>7, <2>8, <2>9 DEF LogBounded
<1>4. ASSUME NEW p \in Writers, AppendFails(p) PROVE LogBounded'
  <2>1. /\ writing[p] # "idle" /\ writing' = [writing EXCEPT ![p] = "idle"]
        /\ UNCHANGED <<log, seqCache>> /\ torn' \in BOOLEAN
        /\ mishaps' \in 0..MaxMishaps
    BY <1>4, <1>m DEF AppendFails
  <2>2. \A q \in Writers : writing'[q] = "idle"  BY <1>1, <2>1
  <2> QED BY <1>b, <2>1, <2>2 DEF LogBounded
<1>5. ASSUME NEW p \in Writers, SyncFails(p) PROVE LogBounded'
  <2>1. PICK who \in SUBSET Clients :
            log' = Append(log, [seq |-> NextNumber(p), unheard |-> who])
    BY <1>5 DEF SyncFails
  <2>2. /\ writing[p] \in {"cached", "reseed"} /\ seqCache' = seqCache
        /\ writing' = [writing EXCEPT ![p] = "idle"] /\ torn' = FALSE
        /\ mishaps' \in 0..MaxMishaps
    BY <1>5, <1>m DEF SyncFails
  <2> DEFINE frame == [seq |-> NextNumber(p), unheard |-> who]
  <2>3. NextNumber(p) = Len(log)  BY <2>2, NumberIsNext
  <2>4. frame \in Frames  BY <1>s, <2>3 DEF Frames
  <2>5. log' = Append(log, frame)  BY <2>1
  <2> HIDE DEF frame
  <2>6. Len(log') = Len(log) + 1 /\ Len(log) < MaxEvents
    BY <1>s, <1>b, <2>2, <2>4, <2>5
  <2>7. \A q \in Writers : writing'[q] = "idle"  BY <1>1, <2>2
  <2>8. torn' \in BOOLEAN  BY <2>2
  <2> QED BY <1>s, <1>b, <2>2, <2>6, <2>7, <2>8 DEF LogBounded
<1>6. ASSUME NEW p \in Writers, WriterDies(p) PROVE LogBounded'
  <2>1. /\ log' = log /\ writing' = [writing EXCEPT ![p] = "idle"]
        /\ seqCache' = [seqCache EXCEPT ![p] = NoCache]
        /\ mishaps' \in 0..MaxMishaps
    BY <1>6, <1>m DEF WriterDies
  <2>2. torn' \in BOOLEAN  BY <1>6, <1>b DEF WriterDies
  <2>3. NoCache \in [next : Seqs, size : Seqs \X BOOLEAN]
    <3>1. 0 \in Seqs /\ TRUE \in BOOLEAN  BY <1>s DEF Seqs
    <3> QED BY <3>1, CacheLeft DEF NoCache
  <2>4. \A q \in Writers : seqCache'[q] \in [next : Seqs, size : Seqs \X BOOLEAN]
    BY <1>s, <1>b, <2>1, <2>3
  <2>5. \A q \in Writers : writing'[q] \in {"idle", writing[q]}  BY <1>s, <2>1
  <2> QED BY <1>b, <2>1, <2>2, <2>4, <2>5 DEF LogBounded
<1>7. CASE UNCHANGED <<log, seqCache, writing, mishaps>> /\ torn' \in BOOLEAN
  BY <1>b, <1>7 DEF LogBounded
<1>8. ASSUME NEW c \in Clients, Detach(c) \/ \E p \in Writers : Reconnect(c, p)
      PROVE  LogBounded'
  BY <1>7, <1>8, <1>b DEF Detach, Reconnect
<1>9. CASE UNCHANGED logVars  BY <1>7, <1>9, <1>b DEF logVars
<1> QED BY <1>2, <1>3, <1>4, <1>5, <1>6, <1>8, <1>9 DEF LogNext

\* A sequence is one over whatever holds its elements.
LEMMA SequenceOver ==
    ASSUME NEW S, NEW T, NEW s \in Seq(S), \A k \in DOMAIN s : s[k] \in T
    PROVE  s \in Seq(T)
<1>1. Len(s) \in Nat /\ s \in [1..Len(s) -> T]  OBVIOUS
<1> QED BY <1>1, OverInterval

\* Numbers, caches and clients stay within the bound of the log.
LEMMA LogTypes == ASSUME LogInv, ClientInv, LogBounded PROVE LogTypeOK
<1>1. /\ log \in Seq(Frames) /\ Len(log) \in Nat /\ MaxEvents \in Nat
      /\ Len(log) <= MaxEvents /\ burnt \subseteq 0..Len(log)
  BY LogConstants DEF LogInv, LogShapes, ClientInv, BurntAreNear, LogBounded, LogConstants
<1>2. log \in Seq([seq : Seqs, unheard : SUBSET Clients])
  <2>1. ASSUME NEW i \in DOMAIN log PROVE log[i] \in [seq : Seqs, unheard : SUBSET Clients]
    <3>1. log[i] \in Frames /\ i \in 1..Len(log)  BY <1>1, <2>1
    <3>2. log[i].seq = i - 1  BY <2>1 DEF LogInv, Sequenced
    <3>3. log[i].seq \in Seqs  BY <1>1, <3>1, <3>2 DEF Seqs
    <3> QED BY <3>1, <3>3 DEF Frames
  <2> QED BY <1>1, <2>1, SequenceOver
<1>3. \A n \in Nat : n <= Len(log) => n \in Seqs  BY <1>1 DEF Seqs
<1>4. burnt \subseteq Seqs  BY <1>1, <1>3
<1>5. ASSUME NEW c \in Clients
      PROVE  /\ client[c].home \in Writers \cup {"none"}
             /\ client[c].seen \subseteq Seqs /\ client[c].since \in 0..(MaxEvents + 1)
             /\ client[c].received \in Seq(Seqs)
  <2>1. client[c] \in Client /\ ClientOK(c)  BY DEF ClientInv, ClientShapes
  <2>2. /\ client[c].home \in Writers \cup {"none"} /\ client[c].seen \subseteq Nat
        /\ client[c].since \in Nat /\ client[c].received \in Seq(Nat)
    BY <2>1 DEF Client
  <2>3. client[c].seen \subseteq Seqs
    BY <1>1, <1>3, <1>4, <2>1, <2>2 DEF ClientOK, OnlyGivenOut
  <2>4. client[c].since \in 0..(MaxEvents + 1)
    <3>1. client[c].since <= Len(log) \/ client[c].since - 1 \in burnt
          \/ client[c].since = 0
      BY <2>1 DEF ClientOK, OnlyGivenOut
    <3> QED BY <1>1, <2>2, <3>1
  <2>5. ASSUME NEW k \in DOMAIN client[c].received PROVE client[c].received[k] \in Seqs
    <3>1. client[c].received[k] \in Nat  BY <2>2, <2>5
    <3>2. client[c].received[k] < Len(log)
      BY <2>1, <2>5 DEF ClientOK, ReceivedIsGiven
    <3> QED BY <1>1, <1>3, <3>1, <3>2
  <2>6. client[c].received \in Seq(Seqs)  BY <2>2, <2>5, SequenceOver
  <2> QED BY <2>2, <2>3, <2>4, <2>6
<1>6. /\ seqCache \in [Writers -> [next : Seqs, size : Seqs \X BOOLEAN]]
      /\ writing \in [Writers -> {"idle", "cached", "reseed"}]
      /\ torn \in BOOLEAN /\ mishaps \in 0..MaxMishaps
  <2>1. /\ seqCache = [p \in Writers |-> seqCache[p]]
        /\ writing = [p \in Writers |-> writing[p]]
    BY DEF LogInv, LogShapes
  <2> QED BY <2>1 DEF LogBounded
<1> QED BY <1>1, <1>2, <1>4, <1>5, <1>6, Zenon DEF LogTypeOK

\* The event log, its caches and its clients, over any number of processes, clients
\* and mishaps: no number, replay position or cached size leaves the log's bound.
THEOREM LogTypeCorrect == LogSpec => []LogTypeOK
<1>1. LogInit => LogInv /\ ClientInv /\ LogBounded
  <2>1. LogInit => LogInv /\ ClientInv  BY LogInvInit, ClientInvInit
  <2>2. ASSUME LogInit PROVE LogBounded
    <3>1. MaxEvents \in Nat /\ MaxMishaps \in Nat
      BY LogConstants DEF LogConstants
    <3>2. NoCache \in [next : Seqs, size : Seqs \X BOOLEAN]
      <4>1. 0 \in Seqs /\ TRUE \in BOOLEAN  BY <3>1 DEF Seqs
      <4> QED BY <4>1, CacheLeft DEF NoCache
    <3>3. /\ log = <<>> /\ torn = FALSE /\ mishaps = 0
          /\ seqCache = [p \in Writers |-> NoCache]
          /\ writing = [p \in Writers |-> "idle"]
      BY <2>2 DEF LogInit
    <3>4. Len(log) = 0 /\ torn \in BOOLEAN  BY <3>3
    <3> QED BY <3>1, <3>2, <3>3, <3>4 DEF LogBounded
  <2> QED BY <2>1, <2>2
<1>2. LogInv /\ ClientInv /\ LogBounded /\ [LogNext]_logVars
        => LogInv' /\ ClientInv' /\ LogBounded'
  BY LogInvStep, ClientInvStep, LogBoundedStep
<1>3. LogInv /\ ClientInv /\ LogBounded => LogTypeOK  BY LogTypes
<1> QED BY <1>1, <1>2, <1>3, PTL DEF LogSpec

-----------------------------------------------------------------------------
(* The claim of a driving child, over any number of children and crashes of *)
(* the server.  Two places decide on what is older than the lock they act   *)
(* under: recovery's reading of the claim, and a handoff's memory of whose  *)
(* claim to drop.  The invariant says what makes both harmless: a child     *)
(* judged dead stays dead.                                                  *)

USE ClaimConstants

Begun == {"started", "driving", "gone"}

\* The claim is that of a child that got as far as being handed the operation.
ClaimantBegun == claim \in Children => child[claim] \in Begun

\* A claim past the ceiling is of a child that is gone or on record as overdue.
AncientIsOverdue ==
    (claim \in Children /\ beat = "ancient") =>
        child[claim] = "gone" \/ claim \in overdue

\* What recovery is about to remove is the claim of such a child too.
ObservedIsDead ==
    observed \in Children => child[observed] = "gone" \/ observed \in overdue

ClaimInv == /\ ClaimTypeOK /\ ClaimantBegun /\ AncientIsOverdue
            /\ ObservedIsDead /\ DriverHoldsClaim

-----------------------------------------------------------------------------
\* Whoever removes a claim removes that of the child it has in mind or none.
LEMMA RemovalIsExact ==
    ASSUME NEW k, TriesToRemove(k)
    PROVE  claim' = claim \/ (claim = k /\ claim' = Nobody)
BY DEF TriesToRemove, RemoveClaimOf

\* Nobody is born and nothing is claimed.
LEMMA ClaimInvInit == ASSUME ClaimInit PROVE ClaimInv
BY DEF ClaimConstants, ClaimInit, ClaimInv, ClaimTypeOK, ClaimantBegun,
       AncientIsOverdue, ObservedIsDead, DriverHoldsClaim, Nobody, NothingSeen, Ages

\* Every step of server, children and recovery keeps the claim invariant.
LEMMA ClaimInvStep ==
    ASSUME ClaimInv, [ClaimNext]_claimVars PROVE ClaimInv'
<1> USE DEF ClaimConstants, ClaimInv, ClaimTypeOK, Nobody, NothingSeen, Ages
<1> USE DEF ClaimantBegun, AncientIsOverdue, ObservedIsDead, DriverHoldsClaim, Begun
<1>1. ASSUME NEW k \in Children, Spawn(k) PROVE ClaimInv'
  BY <1>1 DEF Spawn
<1>2. ASSUME NEW k \in Children, HandOff(k) PROVE ClaimInv'
  BY <1>2 DEF HandOff, Gone
<1>3. ASSUME NEW k \in Children, HandOffFails(k) PROVE ClaimInv'
  BY <1>3, RemovalIsExact DEF HandOffFails, Gone
<1>4. ASSUME NEW k \in Children, SeesExit(k) PROVE ClaimInv'
  BY <1>4, RemovalIsExact DEF SeesExit
<1>5. ASSUME NEW k \in Children, StartDriving(k) PROVE ClaimInv'
  BY <1>5 DEF StartDriving
<1>6. ASSUME NEW k \in Children, Beat(k) PROVE ClaimInv'
  BY <1>6 DEF Beat, Gone
<1>7. ASSUME NEW k \in Children, Leaves(k) PROVE ClaimInv'
  BY <1>7, RemovalIsExact DEF Leaves, Gone
<1>8. ASSUME NEW k \in Children, Dies(k) PROVE ClaimInv'
  BY <1>8 DEF Dies, Gone
<1>9. CASE ServerDies
  BY <1>9 DEF ServerDies
<1>10. CASE GrowsOld
  BY <1>10 DEF GrowsOld, Exists
<1>11. CASE ReadsClaim
  BY <1>11 DEF ReadsClaim, OwnerEvidence, Exists
<1>12. CASE RemovesClaim
  BY <1>12, RemovalIsExact DEF RemovesClaim
<1>13. CASE UNCHANGED claimVars
  BY <1>13 DEF claimVars
<1> QED BY <1>1, <1>2, <1>3, <1>4, <1>5, <1>6, <1>7, <1>8, <1>9, <1>10, <1>11,
           <1>12, <1>13 DEF ClaimNext

-----------------------------------------------------------------------------
\* removeProcessExecutionClaim, heartbeats, handoffs and recovery together: a
\* child that drives has its claim on disk, unless it was silent past the ceiling.
THEOREM DriversHoldTheirClaims ==
    ClaimSpec => []DriverHoldsClaim
<1>1. ClaimInit => ClaimInv  BY ClaimInvInit
<1>2. ClaimInv /\ [ClaimNext]_claimVars => ClaimInv'  BY ClaimInvStep
<1>3. ClaimInv => DriverHoldsClaim  BY DEF ClaimInv
<1> QED BY <1>1, <1>2, <1>3, PTL DEF ClaimSpec

\* The claim file, the handoff and the recovery, for any number of children and
\* crashes of the server: whatever a claim names is a child or nobody.
THEOREM ClaimTypeCorrect == ClaimSpec => []ClaimTypeOK
<1>1. ClaimInit => ClaimInv  BY ClaimInvInit
<1>2. ClaimInv /\ [ClaimNext]_claimVars => ClaimInv'  BY ClaimInvStep
<1>3. ClaimInv => ClaimTypeOK  BY DEF ClaimInv
<1> QED BY <1>1, <1>2, <1>3, PTL DEF ClaimSpec

-----------------------------------------------------------------------------
(* An update happens as a whole or not at all, for every set of files,     *)
(* every number of versions and every number of failures and crashes.      *)
(* What the files are follows from the status in the journal and from how  *)
(* far the process has come: Steps says which status a phase works on,     *)
(* Promised what the status alone promises of the files and the backups.   *)
(* A fault loses the phase, so every phase must leave what the status      *)
(* promises; Reached is what it adds.                                      *)

Was == Tree(anchor.journal.previous)
Target == Tree(anchor.journal.target)

Steps ==
    /\ UpdatePending => anchor.journal \in Journal
    /\ phase \in {"clear", "receipt", "backup", "copy", "report", "land", "putback",
                  "mark", "marked"} => UpdatePending
    /\ phase = "clear" => Status \in {"verified", "restored"}
    /\ phase = "receipt" => Status = "restored"
    /\ phase = "backup" => Status = "backing-up"
    /\ phase = "copy" => Status = "active"
    /\ phase \in {"report", "land"} => Status = "applied"
    /\ phase = "putback" => Status \in {"active", "applied", "verified"}
    /\ phase = "marked" => to = Status
    /\ phase = "mark" => \/ to = "active" /\ Status = "backing-up"
                         \/ to = "applied" /\ Status = "active"
                         \/ to = "verified" /\ Status = "applied"
                         \/ to = "restored" /\ Status # "restored"

\* The install is being put back, or is put back and not yet journalled so.
PuttingBack == phase = "putback" \/ (phase = "mark" /\ to = "restored")

\* What the status alone promises.
Promised ==
    /\ ~UpdatePending => install = Tree(receipt)
    /\ UpdatePending => Entries = Was
    /\ UpdatePending /\ Status = "backing-up" =>
          install = Was /\ receipt = anchor.journal.previous
    /\ Undoable => BackupsHold
    /\ UpdatePending /\ Status = "verified" => receipt = anchor.journal.target
    /\ UpdatePending /\ Status = "verified" /\ ~PuttingBack => install = Target
    /\ UpdatePending /\ Status = "restored" => install = Was

\* What the phase adds.
Reached ==
    /\ phase = "clear" /\ Status = "restored" => receipt = anchor.journal.previous
    /\ phase = "backup" => \A f \in Existed \ left : backup[f] = Entries[f]
    /\ phase = "copy" => \A f \in Files \ left : install[f] = Target[f]
    /\ phase \in {"report", "land"} => install = Target
    /\ phase = "putback" => \A f \in Files \ left : install[f] = Entries[f]
    /\ phase = "mark" /\ to = "active" => BackupsHold
    /\ phase \in {"mark", "marked"} /\ to = "applied" => install = Target
    /\ phase = "mark" /\ to = "verified" =>
          install = Target /\ receipt = anchor.journal.target
    /\ phase = "mark" /\ to = "restored" => install = Was

UpdateInv == UpdateTypeOK /\ Steps /\ (~undermined => Promised /\ Reached)

USE UpdateConstants DEF UpdateConstants, Versions, Statuses

-----------------------------------------------------------------------------
LEMMA TreesAreInstalls ==
    \A v \in Versions : Tree(v) \in [Files -> Versions \cup {Absent, Torn}]
BY DEF Tree, ContentOf

LEMMA HealthsAre ==
    \A n \in Nat, b \in BOOLEAN :
        [failures |-> n, repaired |-> b] \in [failures : Nat, repaired : BOOLEAN]
BY Zenon

LEMMA UpdateInvInit == UpdateInit => UpdateInv
<1> SUFFICES ASSUME UpdateInit PROVE UpdateInv
    OBVIOUS
<1>1. UpdateTypeOK
    <2>1. 0 \in Versions
        OBVIOUS
    <2>2. install \in [Files -> Versions \cup {Absent, Torn}]
        BY <2>1, TreesAreInstalls DEF UpdateInit
    <2>3. backup \in [Files -> Versions \cup {Absent, Torn}]
        BY DEF UpdateInit, NoBackups
    <2>4. anchor \in [journal : Journal \cup {NoJournal}, was : Journal \cup {NoJournal}]
        BY DEF UpdateInit, NoAnchor
    <2>5. health \in [failures : Nat, repaired : BOOLEAN]
        BY HealthsAre DEF UpdateInit
    <2>6. /\ journal \in Journal \cup {NoJournal} /\ phase = "down" /\ why = "boot"
          /\ to \in Statuses /\ left \subseteq Files /\ undermined \in BOOLEAN
        BY DEF UpdateInit
    <2>7. updFaults \in 0..MaxUpdateFaults /\ receipt \in Versions
        BY DEF UpdateInit
    <2> QED BY <2>2, <2>3, <2>4, <2>5, <2>6, <2>7 DEF UpdateTypeOK
<1>2. ~UpdatePending /\ phase = "down"
    BY DEF UpdateInit, UpdatePending
<1>3. Steps
    BY <1>2 DEF Steps
<1>4. Promised /\ Reached
    BY <1>2 DEF UpdateInit, Promised, Reached, Undoable
<1> QED BY <1>1, <1>3, <1>4 DEF UpdateInv

LEMMA AJournalPends ==
    ASSUME NEW j \in Journal, NEW w PROVE [journal |-> j, was |-> w] # NoAnchor
<1>1. j # NoJournal
    OBVIOUS
<1> QED BY <1>1 DEF NoAnchor

LEMMA PublishAnchorKeeps ==
    ASSUME UpdateInv, PublishAnchor PROVE UpdateInv'
<1> DEFINE next == [anchor.journal EXCEPT !.status = to]
<1>0. anchor.journal \in Journal /\ UpdatePending /\ phase' = "marked" /\ to' = to
    BY DEF PublishAnchor, Bound, UpdateInv, Steps, Goes
<1>1. next \in Journal /\ anchor' = [journal |-> next, was |-> journal]
    BY <1>0 DEF UpdateInv, UpdateTypeOK, Journal, PublishAnchor
<1>2. anchor'.journal = next /\ UpdatePending'
    BY <1>1, AJournalPends DEF UpdatePending
<1>3. next.status = to
    BY <1>0 DEF Journal
<1>4. UpdateTypeOK'
    BY <1>1 DEF UpdateInv, UpdateTypeOK, PublishAnchor, Goes, Calm
<1>5. Steps'
    BY <1>0, <1>1, <1>2, <1>3 DEF Steps, Status
<1>6. ~undermined' => Promised' /\ Reached'
    BY SMTT(30), <1>0, <1>2 DEF UpdateInv, UpdateTypeOK, Journal, Steps, Promised,
       Reached, PublishAnchor, Goes, Calm, disk, UpdatePending, Status, Bound, Marks,
       Entries, Undoable, Existed, BackupsHold, PuttingBack, Was, Target, Tree,
       ContentOf
<1> QED BY <1>4, <1>5, <1>6 DEF UpdateInv

LEMMA UpdateFailsKeeps ==
    ASSUME UpdateInv, UpdateFails PROVE UpdateInv'
<1>1. health' \in [failures : Nat, repaired : BOOLEAN]
    <2>1. CASE health.failures >= 1 /\ ~health.repaired
        BY <2>1, HealthsAre DEF UpdateFails
    <2>2. CASE ~(health.failures >= 1 /\ ~health.repaired)
        BY <2>2 DEF UpdateFails, UpdateInv, UpdateTypeOK
    <2> QED BY <2>1, <2>2
<1>2. backup' \in [Files -> Versions \cup {Absent, Torn}]
    BY DEF UpdateFails, UpdateInv, UpdateTypeOK, NoBackups
<1>3. undermined' \in BOOLEAN /\ (~undermined' => ~undermined)
    BY DEF UpdateFails, UpdateInv, UpdateTypeOK
<1>4. UpdateTypeOK'
    BY <1>1, <1>2, <1>3 DEF UpdateFails, UpdateInv, UpdateTypeOK, Goes
<1>5. Steps'
    BY DEF UpdateFails, UpdateInv, UpdateTypeOK, Steps, Goes, UpdatePending, Status
<1>6. ~undermined' /\ Undoable' => backup' = backup
    BY DEF UpdateFails, UpdateInv, UpdateTypeOK, Undoable, UpdatePending, Status
<1>7. ~undermined' => Promised' /\ Reached'
    BY <1>3, <1>6 DEF UpdateFails, UpdateInv, Promised, Reached, Goes, Calm, disk,
       UpdatePending, Status, Bound, Marks, Entries, Undoable, Existed, BackupsHold,
       PuttingBack, Was, Target, Tree, ContentOf
<1> QED BY <1>4, <1>5, <1>7 DEF UpdateInv

LEMMA BeginUpdateKeeps ==
    ASSUME UpdateInv, NEW v \in Versions, BeginUpdate(v) PROVE UpdateInv'
<1> DEFINE first == [status |-> "backing-up", entries |-> install,
                     previous |-> receipt, target |-> v]
<1>1. first \in Journal /\ anchor' = [journal |-> first, was |-> NoJournal]
    BY DEF BeginUpdate, UpdateInv, UpdateTypeOK, Journal
<1>2. anchor'.journal = first /\ UpdatePending'
    BY <1>1, AJournalPends DEF UpdatePending
<1>3. UpdateTypeOK'
    BY <1>1 DEF BeginUpdate, UpdateInv, UpdateTypeOK, Calm
<1>4. Steps'
    BY <1>1, <1>2 DEF BeginUpdate, Steps, Status
<1>5. ~undermined' => Promised' /\ Reached'
    BY <1>2 DEF BeginUpdate, UpdateInv, UpdateTypeOK, Promised, Reached, Goes, Calm,
       disk, UpdatePending, Status, Bound, Marks, Entries, Undoable, Existed,
       BackupsHold, PuttingBack, Was, Target, Tree, ContentOf
<1> QED BY <1>3, <1>4, <1>5 DEF UpdateInv

\* A fault may tear the file being written, and loses the phase.
LEMMA InterruptedKeeps ==
    ASSUME UpdateInv, Interrupted, phase' \in {"up", "down", "restore", "fail"},
           why' \in {"boot", "update", "copy", "verify"}
    PROVE UpdateInv'
<1>1. UpdateTypeOK'
    BY SMTT(30) DEF Interrupted, UpdateInv, UpdateTypeOK, Disbelieved, UpdatePending
<1>2. Steps'
    BY DEF Interrupted, UpdateInv, Steps, UpdatePending, Status
<1>3. ~undermined' => ~undermined /\ ~Disbelieved(install')
    BY DEF Interrupted
<1>4. Reached'
    BY DEF Reached
<1>5. CASE UNCHANGED <<install, backup>>
    <2>1. ~undermined' => Promised'
        BY <1>3, <1>5 DEF Interrupted, UpdateInv, Steps, Promised, Disbelieved, Goes,
           Calm, disk, UpdatePending, Status, Bound, Marks, Entries, Undoable, Existed,
           BackupsHold, PuttingBack, Was, Target, Tree, ContentOf
    <2> QED BY <2>1, <1>1, <1>2, <1>4 DEF UpdateInv
<1>6. CASE phase \in {"copy", "putback"} /\ UNCHANGED backup
    <2>1. ~undermined' => Promised'
        BY <1>3, <1>6 DEF Interrupted, UpdateInv, Steps, Promised, Disbelieved, Goes,
           Calm, disk, UpdatePending, Status, Bound, Marks, Entries, Undoable, Existed,
           BackupsHold, PuttingBack, Was, Target, Tree, ContentOf
    <2> QED BY <2>1, <1>1, <1>2, <1>4 DEF UpdateInv
<1>7. CASE phase = "backup" /\ UNCHANGED install
    <2>1. ~undermined' => Promised'
        BY <1>3, <1>7 DEF Interrupted, UpdateInv, Steps, Promised, Disbelieved, Goes,
           Calm, disk, UpdatePending, Status, Bound, Marks, Entries, Undoable, Existed,
           BackupsHold, PuttingBack, Was, Target, Tree, ContentOf
    <2> QED BY <2>1, <1>1, <1>2, <1>4 DEF UpdateInv
<1> QED BY <1>5, <1>6, <1>7 DEF Interrupted

\* Steps that leave the files, the backups and the anchor alone.
LEMMA QuietStepKeeps ==
    ASSUME UpdateInv,
           \/ Boot \/ StartUpdate \/ Recover \/ RollForward \/ RemoveJournal
           \/ FinishRestore \/ UpToDate \/ AllThere \/ ReportUpdate \/ Shutdown
    PROVE UpdateInv'
<1>1. CASE Boot
    BY SMTT(30), <1>1 DEF UpdateInv, UpdateTypeOK, Steps, Promised, Reached, Goes, Calm,
       disk, UpdatePending, Status, Bound, Marks, Entries, Undoable, Existed,
       BackupsHold, PuttingBack, Was, Target, Boot
<1>2. CASE StartUpdate
    BY SMTT(30), <1>2 DEF UpdateInv, UpdateTypeOK, Steps, Promised, Reached, Goes, Calm,
       disk, UpdatePending, Status, Bound, Marks, Entries, Undoable, Existed,
       BackupsHold, PuttingBack, Was, Target, StartUpdate
<1>3. CASE Recover
    BY SMTT(30), <1>3 DEF UpdateInv, UpdateTypeOK, Steps, Promised, Reached, Goes, Calm,
       disk, UpdatePending, Status, Bound, Marks, Entries, Undoable, Existed,
       BackupsHold, PuttingBack, Was, Target, Recover, KnownGood
<1>4. CASE RollForward
    BY SMTT(30), <1>4 DEF UpdateInv, UpdateTypeOK, Steps, Promised, Reached, Goes, Calm,
       disk, UpdatePending, Status, Bound, Marks, Entries, Undoable, Existed,
       BackupsHold, PuttingBack, Was, Target, RollForward
<1>5. CASE RemoveJournal
    BY SMTT(30), <1>5 DEF UpdateInv, UpdateTypeOK, Steps, Promised, Reached, Goes, Calm,
       disk, UpdatePending, Status, Bound, Marks, Entries, Undoable, Existed,
       BackupsHold, PuttingBack, Was, Target, RemoveJournal
<1>6. CASE FinishRestore
    <2>1. UpdateTypeOK' /\ Steps'
        BY <1>6 DEF UpdateInv, UpdateTypeOK, Steps, FinishRestore, Goes, Calm, disk,
           UpdatePending, Status, Bound, Marks
    <2>2. phase = "putback" /\ left = {} /\ anchor.journal \in Journal
        BY <1>6 DEF FinishRestore, UpdateInv, Steps
    <2>3. ~undermined => install = Was
        <3>1. Entries \in [Files -> Versions \cup {Absent, Torn}]
            BY <2>2 DEF Journal, Entries
        <3> QED BY <3>1, <2>2 DEF UpdateInv, UpdateTypeOK, Steps, Reached, Promised
    <2>4. ~undermined' => Promised' /\ Reached'
        BY <1>6, <2>2, <2>3 DEF UpdateInv, Promised, Reached, FinishRestore, Goes, Calm,
           disk, UpdatePending, Status, Bound, Marks, Entries, Undoable, Existed,
           BackupsHold, PuttingBack, Was, Target
    <2> QED BY <2>1, <2>4 DEF UpdateInv
<1>7. CASE UpToDate
    BY SMTT(30), <1>7, HealthsAre DEF UpdateInv, UpdateTypeOK, Steps, Promised, Reached,
       Goes, Calm, disk, UpdatePending, Status, Bound, Marks, Entries, Undoable,
       Existed, BackupsHold, PuttingBack, Was, Target, UpToDate
<1>8. CASE AllThere
    <2>1. UpdateTypeOK' /\ Steps'
        BY <1>8 DEF UpdateInv, UpdateTypeOK, Steps, AllThere, Goes, Calm, disk,
           UpdatePending, Status, Bound, Marks
    <2>2. ~undermined /\ phase = "backup" => BackupsHold
        BY <1>8 DEF AllThere, UpdateInv, Reached, BackupsHold, Existed
    <2>3. ~undermined /\ phase = "copy" => install = Target
        BY <1>8 DEF AllThere, UpdateInv, UpdateTypeOK, Reached, Target, Tree
    <2>4. ~undermined' => Promised' /\ Reached'
        BY <1>8, <2>2, <2>3 DEF UpdateInv, Promised, Reached, AllThere, Goes, Calm,
           disk, UpdatePending, Status, Bound, Marks, Entries, Undoable, Existed,
           BackupsHold, PuttingBack, Was, Target
    <2> QED BY <2>1, <2>4 DEF UpdateInv
<1>9. CASE ReportUpdate
    BY SMTT(30), <1>9 DEF UpdateInv, UpdateTypeOK, Steps, Promised, Reached, Goes, Calm,
       disk, UpdatePending, Status, Bound, Marks, Entries, Undoable, Existed,
       BackupsHold, PuttingBack, Was, Target, ReportUpdate
<1>10. CASE Shutdown
    BY SMTT(30), <1>10 DEF UpdateInv, UpdateTypeOK, Steps, Promised, Reached, Goes,
       Calm, disk, UpdatePending, Status, Bound, Marks, Entries, Undoable, Existed,
       BackupsHold, PuttingBack, Was, Target, Shutdown
<1> QED BY <1>1, <1>2, <1>3, <1>4, <1>5, <1>6, <1>7, <1>8, <1>9, <1>10

LEMMA UpdateInvStep ==
    ASSUME UpdateInv, [UpdateNext]_updateVars PROVE UpdateInv'
<1>1. CASE UNCHANGED updateVars
    BY <1>1 DEF UpdateInv, UpdateTypeOK, Steps, Promised, Reached, updateVars, Goes,
       Calm, disk, UpdatePending, Status, Bound, Marks, Entries, Undoable, Existed,
       BackupsHold, PuttingBack, Was, Target
<1>2. CASE PublishJournal
    <2>1. UpdateTypeOK' /\ Steps'
        BY <1>2, HealthsAre DEF UpdateInv, UpdateTypeOK, Steps, PublishJournal, Calm,
           Existed, UpdatePending, Status
    <2>2. ~undermined' => Promised' /\ Reached'
        BY SMTT(30), <1>2 DEF UpdateInv, UpdateTypeOK, Steps, Promised, Reached,
           PublishJournal, Goes, Calm, disk, UpdatePending, Status, Bound, Marks,
           Entries, Undoable, Existed, BackupsHold, PuttingBack, Was, Target
    <2> QED BY <2>1, <2>2 DEF UpdateInv
<1>3. CASE PutBackReceipt
    BY <1>3 DEF UpdateInv, UpdateTypeOK, Steps, Promised, Reached, Journal,
       PutBackReceipt, Goes, Calm, disk, UpdatePending, Status, Bound, Marks, Entries,
       Undoable, Existed, BackupsHold, PuttingBack, Was, Target
<1>4. CASE RemoveBackups
    BY <1>4 DEF UpdateInv, UpdateTypeOK, Steps, Promised, Reached, NoBackups,
       RemoveBackups, Goes, Calm, disk, UpdatePending, Status, Bound, Marks, Entries,
       Undoable, Existed, BackupsHold, PuttingBack, Was, Target
<1>5. CASE RemoveAnchor
    BY <1>5 DEF UpdateInv, UpdateTypeOK, Steps, Promised, Reached, NoAnchor,
       RemoveAnchor, Goes, Calm, disk, UpdatePending, Status, Bound, Marks, Entries,
       Undoable, Existed, BackupsHold, PuttingBack, Was, Target
<1>6. CASE Restore
    <2>1. UpdateTypeOK'
        BY <1>6 DEF UpdateInv, UpdateTypeOK, Restore, Goes, Calm, disk, UpdatePending,
           Status, Bound, Marks
    <2>2. Steps'
        BY <1>6 DEF UpdateInv, UpdateTypeOK, Steps, Journal, NothingReplaced, Restore,
           Goes, Calm, disk, UpdatePending, Status, Bound, Marks
    <2>3. ~undermined' => Promised' /\ Reached'
        BY SMTT(30), <1>6 DEF UpdateInv, Steps, Promised, Reached, NothingReplaced,
           Restore, Goes, Calm, disk, UpdatePending, Status, Bound, Marks, Entries,
           Undoable, Existed, BackupsHold, PuttingBack, Was, Target
    <2> QED BY <2>1, <2>2, <2>3 DEF UpdateInv
<1>7. CASE LandUpdate
    BY <1>7 DEF UpdateInv, UpdateTypeOK, Steps, Promised, Reached, Journal, LandUpdate,
       Goes, Calm, disk, UpdatePending, Status, Bound, Marks, Entries, Undoable,
       Existed, BackupsHold, PuttingBack, Was, Target
<1>8. ASSUME NEW f \in Files, PutBack(f) PROVE UpdateInv'
    BY SMTT(30), <1>8 DEF UpdateInv, UpdateTypeOK, Steps, Promised, Reached, Journal,
       PutBack, Goes, Calm, disk, UpdatePending, Status, Bound, Marks, Entries,
       Undoable, Existed, BackupsHold, PuttingBack, Was, Target
<1>9. ASSUME NEW f \in Files, BackUp(f) PROVE UpdateInv'
    BY SMTT(30), <1>9 DEF UpdateInv, UpdateTypeOK, Steps, Promised, Reached, BackUp,
       Goes, Calm, disk, UpdatePending, Status, Bound, Marks, Entries, Undoable,
       Existed, BackupsHold, PuttingBack, Was, Target
<1>10. ASSUME NEW f \in Files, Copy(f) PROVE UpdateInv'
    BY SMTT(30), <1>10 DEF UpdateInv, UpdateTypeOK, Steps, Promised, Reached, Journal,
       Copy, Goes, Calm, disk, UpdatePending, Status, Bound, Marks, Entries, Undoable,
       Existed, BackupsHold, PuttingBack, Was, Target, Tree, ContentOf
<1>11. CASE UpdateThrows
    BY <1>11, InterruptedKeeps DEF UpdateThrows, UpdateInv, UpdateTypeOK
<1>12. CASE UpdateDies
    BY <1>12, InterruptedKeeps DEF UpdateDies, UpdateInv, UpdateTypeOK
<1> QED
    BY <1>1, <1>2, <1>3, <1>4, <1>5, <1>6, <1>7, <1>8, <1>9, <1>10, <1>11, <1>12,
       QuietStepKeeps, PublishAnchorKeeps, UpdateFailsKeeps, BeginUpdateKeeps DEF UpdateNext

-----------------------------------------------------------------------------
\* The invariant gives the property where nothing is left to undo.
LEMMA UpdateInvSuffices == UpdateInv => UpdateIsAtomic
<1> SUFFICES ASSUME UpdateInv, ~undermined PROVE UpdateIsAtomic
    BY DEF UpdateIsAtomic
<1>1. Settled => install = Tree(receipt)
    BY DEF UpdateInv, Promised, Settled, PuttingBack, Was, Target
<1>2. Undoable => Entries = Was /\ BackupsHold
    BY DEF UpdateInv, Promised, Undoable
<1> QED BY <1>1, <1>2 DEF UpdateIsAtomic, Was

\* recoverPendingUpdate, applyRollingUpdate and the rollback journal between
\* them never leave a mixture of two versions that nothing will undo, whatever
\* fails or crashes, but for the two ways that set undermined.
THEOREM UpdateAtomicity == UpdateSpec => []UpdateIsAtomic
<1>1. UpdateInv /\ [UpdateNext]_updateVars => UpdateInv'
    BY UpdateInvStep
<1> QED BY UpdateInvInit, <1>1, UpdateInvSuffices, PTL DEF UpdateSpec

\* Every variable keeps its type.
THEOREM UpdateTypeCorrect == UpdateSpec => []UpdateTypeOK
<1>1. UpdateInv /\ [UpdateNext]_updateVars => UpdateInv'
    BY UpdateInvStep
<1>2. UpdateInv => UpdateTypeOK
    BY DEF UpdateInv
<1> QED BY UpdateInvInit, <1>1, <1>2, PTL DEF UpdateSpec
=============================================================================
