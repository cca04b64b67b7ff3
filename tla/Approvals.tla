------------------------------ MODULE Approvals ------------------------------
(***************************************************************************)
(* The approval cards of one operation: the in-process manager             *)
(* (approval-manager.ts), whose cards and closures die with the process,   *)
(* and the durable pendingApproval column that survives it                 *)
(* (control-api-approvals.ts, approval-durable-record.ts).                 *)
(*                                                                         *)
(* Callers are the tool calls the operation dispatches.  A call is what    *)
(* exactKey identifies, the tool and all its arguments; the column keeps   *)
(* only the tool and a preview of the arguments, which calls may share.    *)
(* After a restart the turn is driven again and its tool calls ask again.  *)
(***************************************************************************)
EXTENDS Naturals

CONSTANTS Callers,     \* tool calls in flight
          Calls,       \* what they ask for
          PreviewOf,   \* their tool and the first 500 characters of arguments
          Window,      \* APPROVAL_TIMEOUT_MS, in ticks
          Suppress,    \* DECLINE_SUPPRESS_MS, in ticks
          MaxTime,     \* bound: ticks; no card outlives it
          MaxCards,    \* bound: cards ever put up
          MaxRestarts  \* bound: crashes of the process

ASSUME ApprovalConstants ==
    /\ {Window, Suppress, MaxTime, MaxCards, MaxRestarts} \subseteq Nat
    /\ DOMAIN PreviewOf = Calls

VARIABLES clock,
          caller,      \* caller[c]: a tool call's progress through its ask
          cards,       \* the live cards, by id: what they ask and since when
          lastCard,    \* id of the newest card
          inflight,    \* inflight[x]: the card that an identical call rides
          suppressed,  \* suppressed[x]: the last refusal of x, for a while
          column,      \* op.canonical.pendingApproval
          said,        \* history: what the user last answered on each card
          askedFor,    \* history: the call of each card, and its window's start
          restarts

cardVars == <<clock, caller, cards, lastCard, inflight, suppressed, column, said,
              askedFor, restarts>>

Ids == 1..MaxCards
Reasons == {"declined", "timeout", "superseded"}
Outcomes == {"approved"} \cup Reasons
Previews == {PreviewOf[x] : x \in Calls}
Decisions == {"none", "yes", "no"}
Yes(yes) == IF yes THEN "yes" ELSE "no"

Idle == [at |-> "idle"]
Asking(x) == [at |-> "loading", call |-> x]
Waiting(id) == [at |-> "waiting", card |-> id]
Told(x, outcome) == [at |-> "told", call |-> x, outcome |-> outcome]
NoColumn == [id |-> 0]
NoRefusal == [reason |-> "none"]

\* An answer is clicked on a live card, or recorded on the column and then applied.
Unsaid == [answer |-> "none", how |-> "none", at |-> 0]
Said(answer, how) == [answer |-> answer, how |-> how, at |-> clock]
Unasked == [call |-> "none", asked |-> 0]

Live(id) == \E k \in cards : k.id = id
CardOf(id) == CHOOSE k \in cards : k.id = id
Expired(asked) == clock - asked >= Window
Survives == column # NoColumn /\ ~Live(column.id)

CardInit ==
    /\ clock = 0
    /\ caller = [c \in Callers |-> Idle]
    /\ cards = {} /\ lastCard = 0
    /\ inflight = [x \in Calls |-> 0]
    /\ suppressed = [x \in Calls |-> NoRefusal]
    /\ column = NoColumn
    /\ said = [id \in Ids |-> Unsaid] /\ askedFor = [id \in Ids |-> Unasked]
    /\ restarts = 0

CardTypeOK ==
    /\ clock \in 0..MaxTime
    /\ caller \in [Callers -> {Idle} \cup {Asking(x) : x \in Calls}
          \cup {Waiting(id) : id \in Ids}
          \cup {Told(x, o) : x \in Calls, o \in Outcomes}]
    /\ cards \subseteq [id : Ids, call : Calls, asked : 0..MaxTime]
    /\ \A k, l \in cards : k.id = l.id => k = l
    /\ lastCard \in 0..MaxCards
    /\ inflight \in [Calls -> 0..MaxCards]
    /\ suppressed \in [Calls -> {NoRefusal}
                         \cup [reason : Reasons, at : 0..MaxTime]]
    /\ column \in {NoColumn} \cup [id : Ids, preview : Previews, asked : 0..MaxTime,
                                   decision : Decisions]
    /\ said \in [Ids -> [answer : Decisions, at : 0..MaxTime,
                         how : {"none", "clicked", "recorded", "applied"}]]
    /\ askedFor \in [Ids -> [call : Calls \cup {"none"}, asked : 0..MaxTime]]
    /\ restarts \in 0..MaxRestarts

-----------------------------------------------------------------------------
(* requestApprovalDetailed, up to its await and after it.                  *)

Refused(x) == suppressed[x] # NoRefusal /\ clock - suppressed[x].at < Suppress

\* The refusal on record is replayed, an identical card is shared; only a
\* call that finds neither goes on to load the durable bridge.
Request(c, x) ==
    /\ caller[c] = Idle
    /\ caller' = [caller EXCEPT ![c] =
          IF Refused(x) THEN Told(x, suppressed[x].reason)
          ELSE IF inflight[x] # 0 THEN Waiting(inflight[x]) ELSE Asking(x)]
    /\ UNCHANGED <<clock, cards, lastCard, inflight, suppressed, column, said,
                   askedFor, restarts>>

\* Mutant: a survivor speaks for whatever is asked next.
Matches_AnyCall(x) == Survives /\ ~Expired(column.asked)

\* A survivor of a crash speaks for this ask: same tool and preview of the
\* arguments, window still open.
Matches(x) == Survives /\ column.preview = PreviewOf[x] /\ ~Expired(column.asked)

\* A decision the user recorded after the restart is consumed, once.
ApplyRecorded(c) ==
    LET x == caller[c].call
    IN  /\ caller[c].at = "loading" /\ Matches(x) /\ column.decision # "none"
        /\ column' = NoColumn
        /\ caller' = [caller EXCEPT ![c] =
              Told(x, IF column.decision = "yes" THEN "approved" ELSE "declined")]
        /\ said' = [said EXCEPT ![column.id].how = "applied"]
        /\ UNCHANGED <<clock, cards, lastCard, inflight, suppressed, askedFor,
                       restarts>>

NextId == lastCard + 1

\* The card goes up, its ask becomes the column; an undecided survivor of the
\* same ask lends it the rest of its window, any other survivor is settled.
PutUpCard(c) ==
    LET x == caller[c].call
        id == NextId
        carried == Matches(x)
        asked == IF carried THEN column.asked ELSE clock
    IN  /\ caller[c].at = "loading" /\ id \in Ids
        /\ asked + Window <= MaxTime
        /\ carried => column.decision = "none"
        /\ lastCard' = id
        /\ cards' = cards \cup {[id |-> id, call |-> x, asked |-> asked]}
        /\ inflight' = [inflight EXCEPT ![x] = id]
        /\ column' = [id |-> id, preview |-> PreviewOf[x], asked |-> asked,
                      decision |-> "none"]
        /\ askedFor' = [askedFor EXCEPT ![id] = [call |-> x, asked |-> asked]]
        /\ caller' = [caller EXCEPT ![c] = Waiting(id)]
        /\ UNCHANGED <<clock, suppressed, said, restarts>>

\* The tool call runs, or reports why it did not.
Return(c) ==
    /\ caller[c].at = "told"
    /\ caller' = [caller EXCEPT ![c] = Idle]
    /\ UNCHANGED <<clock, cards, lastCard, inflight, suppressed, column, said,
                   askedFor, restarts>>

-----------------------------------------------------------------------------
(* Settling: the promise, the column and the coalescing slot.              *)

\* Mutant: the column is cleared whichever card it belongs to.
ClearsColumn_Any(ids) == column' = NoColumn

\* recordApprovalResolved: only the column of this very card is cleared.
ClearsColumn(ids) == column' = IF column.id \in ids THEN NoColumn ELSE column

\* Mutant: the coalescing slot outlives the card.
Settle_KeepsSlot(ids, outcome) ==
    /\ cards' = {k \in cards : k.id \notin ids}
    /\ UNCHANGED inflight
    /\ ClearsColumn(ids)
    /\ caller' = [c \in Callers |->
          IF caller[c].at = "waiting" /\ caller[c].card \in ids
            THEN Told(CardOf(caller[c].card).call, outcome) ELSE caller[c]]

Settle(ids, outcome) ==
    /\ cards' = {k \in cards : k.id \notin ids}
    /\ inflight' = [x \in Calls |->
          IF \E id \in ids : CardOf(id).call = x THEN 0 ELSE inflight[x]]
    /\ ClearsColumn(ids)
    /\ caller' = [c \in Callers |->
          IF caller[c].at = "waiting" /\ caller[c].card \in ids
            THEN Told(CardOf(caller[c].card).call, outcome) ELSE caller[c]]

\* resolveApproval: the click on a live card.
Click(id, yes) ==
    /\ Live(id)
    /\ Settle({id}, IF yes THEN "approved" ELSE "declined")
    /\ suppressed' = [suppressed EXCEPT ![CardOf(id).call] =
          IF yes THEN NoRefusal ELSE [reason |-> "declined", at |-> clock]]
    /\ said' = [said EXCEPT ![id] = Said(Yes(yes), "clicked")]
    /\ UNCHANGED <<clock, lastCard, askedFor, restarts>>

TimesOut(id) ==
    /\ Live(id) /\ Expired(CardOf(id).asked)
    /\ Settle({id}, "timeout")
    /\ suppressed' = [suppressed EXCEPT ![CardOf(id).call] =
                         [reason |-> "timeout", at |-> clock]]
    /\ UNCHANGED <<clock, lastCard, said, askedFor, restarts>>

\* A chat message instead of a click: denyPendingForSession, which forgets the
\* refusals of the cards it settles, and at a new turn clearDeclines.
UserReplies ==
    /\ cards # {} \/ \E x \in Calls : suppressed[x] # NoRefusal
    /\ Settle({k.id : k \in cards}, "superseded")
    /\ \E forgets \in {Calls, {k.call : k \in cards}} :
          suppressed' = [x \in Calls |->
                           IF x \in forgets THEN NoRefusal ELSE suppressed[x]]
    /\ UNCHANGED <<clock, lastCard, said, askedFor, restarts>>

-----------------------------------------------------------------------------
(* After a restart.                                                        *)

\* resolveDurableApproval: an answer to a card no process has any more is
\* stored on the column, the latest one wins; a dead window is settled.
RecordAnswer(id, yes) ==
    /\ column.id = id /\ Survives
    /\ IF Expired(column.asked)
         THEN column' = NoColumn /\ UNCHANGED said
         ELSE /\ column' = [column EXCEPT !.decision = Yes(yes)]
              /\ said' = [said EXCEPT ![id] = Said(Yes(yes), "recorded")]
    /\ UNCHANGED <<clock, caller, cards, lastCard, inflight, suppressed,
                   askedFor, restarts>>

\* resolveExpiredPendingApproval, when recovery takes the operation over.
SweepColumn ==
    /\ Survives /\ Expired(column.asked)
    /\ column' = NoColumn
    /\ UNCHANGED <<clock, caller, cards, lastCard, inflight, suppressed, said,
                   askedFor, restarts>>

Restart ==
    /\ restarts < MaxRestarts /\ restarts' = restarts + 1
    /\ caller' = [c \in Callers |-> Idle]
    /\ cards' = {} /\ inflight' = [x \in Calls |-> 0]
    /\ suppressed' = [x \in Calls |-> NoRefusal]
    /\ UNCHANGED <<clock, lastCard, column, said, askedFor>>

ClockTick ==
    /\ clock < MaxTime /\ clock' = clock + 1
    /\ UNCHANGED <<caller, cards, lastCard, inflight, suppressed, column, said,
                   askedFor, restarts>>

Ask(c) == (\E x \in Calls : Request(c, x)) \/ ApplyRecorded(c) \/ PutUpCard(c)
            \/ Return(c)
Answer(id) == \E yes \in BOOLEAN : Click(id, yes) \/ RecordAnswer(id, yes)
CardNext == \/ \E c \in Callers : Ask(c)
            \/ \E id \in Ids : Answer(id) \/ TimesOut(id)
            \/ UserReplies \/ SweepColumn \/ Restart \/ ClockTick

CardSpec == CardInit /\ [][CardNext]_cardVars

\* Time passes and timers fire; nobody has to answer.
CardFairness == WF_cardVars(ClockTick) /\ WF_cardVars(\E id \in Ids : TimesOut(id))
FairCardSpec == CardSpec /\ CardFairness

-----------------------------------------------------------------------------
\* What a call c is told in this step is what the user just clicked on the very
\* card it waited on, a card for this call.
ByClick(c, answer) ==
    /\ caller[c].at = "waiting" /\ caller'[c].call = askedFor[caller[c].card].call
    /\ said'[caller[c].card] = Said(answer, "clicked")

\* It is the answer recorded on the newest card since the restart, for an ask with
\* the same preview whose window is open, applied now and never before.
ByRecord(c, answer) ==
    /\ caller[c].at = "loading" /\ caller'[c].call = caller[c].call
    /\ lastCard # 0 /\ said[lastCard].answer = answer
    /\ said[lastCard].how = "recorded" /\ said'[lastCard].how = "applied"
    /\ PreviewOf[askedFor[lastCard].call] = PreviewOf[caller[c].call]
    /\ ~Expired(askedFor[lastCard].asked)

\* It is a no to this very call, clicked less than Suppress ticks ago.
ByReplay(c) ==
    /\ caller[c].at = "idle"
    /\ \E id \in Ids : /\ askedFor[id].call = caller'[c].call
                       /\ said[id].answer = "no" /\ said[id].how = "clicked"
                       /\ clock - said[id].at < Suppress

\* A tool call runs only on the user's yes, and is reported declined only on the
\* user's no: clicked on the card it waits on, or recorded on the newest ask and
\* applied once, in its window, to a call of the same preview; and a no is replayed
\* to the same call only while it is fresh.  Never on a timeout, a reply in chat,
\* an answer to another card or the recorded answer of an expired one.
OutcomesAreTheUsers ==
    [][\A c \in Callers :
         (caller[c].at # "told" /\ caller'[c].at = "told") =>
            /\ caller'[c].outcome = "approved" => ByClick(c, "yes") \/ ByRecord(c, "yes")
            /\ caller'[c].outcome = "declined" =>
                  ByClick(c, "no") \/ ByRecord(c, "no") \/ ByReplay(c)]_cardVars

\* approval-manager.ts:214-217: a decision recorded after a restart is applied "for
\* THIS exact ask".  Not when arguments differ past their preview.
RecordedForThisAsk ==
    [][\A c \in Callers :
         (caller[c].at = "loading" /\ caller'[c].at = "told") =>
            lastCard # 0 /\ askedFor[lastCard].call = caller[c].call]_cardVars

\* While the newest card is up the column names it, whatever older cards, late
\* answers and sweeps settle meanwhile: a crash finds the ask that was open.
NewestAskIsDurable == Live(lastCard) => column.id = lastCard

\* Every ask that went up ends, also one that rides another call's card and one
\* whose window was partly used before a restart: its card is clicked, answered
\* in words, times out or dies with the process, and each wakes all who wait.
EveryAskSettles ==
    \A c \in Callers : caller[c].at = "waiting" ~> caller[c].at # "waiting"
=============================================================================
