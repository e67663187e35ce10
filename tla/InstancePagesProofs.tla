-------------------------- MODULE InstancePagesProofs --------------------------
(***************************************************************************)
(* The pages on process instances, for any number of cancellations, starts *)
(* and timeline pages, any budget, and any definitions and filters.        *)
(*   Cancelling: while no cancellation is pending, an optimistic status    *)
(* is marked invalid, until an answer brings what the server has read;     *)
(* what has been read as cancelled stays so.                               *)
(*   The timeline: a page of it is behind the feed's cursor by at most     *)
(* one, and then the page of the cursor is not there yet.                  *)
(*   The address of the board: the version the page holds belongs to the   *)
(* definition in the address.                                              *)
(***************************************************************************)
EXTENDS InstancePages, BoardFilters, TLAPS

EntryOf(values) ==
    [data : values \union {None}, request : {"idle", "asked", "read"}, read : values \union {None},
     failed : BOOLEAN, invalid : BOOLEAN]

(* What asking again and failing do to an entry, and what they never do.   *)
Keeps(e, f) ==
    /\ f.data = e.data
    /\ f.request = "read" => e.request = "read" /\ f.read = e.read
    /\ e.invalid => f.invalid

LEMMA EntriesKept ==
    ASSUME NEW values, NEW e \in EntryOf(values)
    PROVE  /\ Blank \in EntryOf(values)
           /\ Refetched(e) \in EntryOf(values) /\ Keeps(e, Refetched(e))
           /\ Failed(e) \in EntryOf(values) /\ Keeps(e, Failed(e))
           /\ \A b \in BOOLEAN : /\ Observed(e, b) \in EntryOf(values) /\ Keeps(e, Observed(e, b))
                                 /\ Invalidated(e, b) \in EntryOf(values) /\ Keeps(e, Invalidated(e, b))
                                 /\ Invalidated(e, b).invalid
<1> USE DEF EntryOf, Keeps
<1>1. Blank \in EntryOf(values) BY DEF Blank
<1>2. \A f \in EntryOf(values) : Requested(f) \in EntryOf(values) /\ Keeps(f, Requested(f))
  BY DEF Requested
<1>3. \A f \in EntryOf(values) : Refetched(f) \in EntryOf(values) /\ Keeps(f, Refetched(f))
  <2>1. TAKE f \in EntryOf(values)
  <2>2. Refetched(f) \in {f, Requested(f)} BY DEF Refetched
  <2>3. Keeps(f, f) OBVIOUS
  <2> HIDE DEF EntryOf, Keeps
  <2>4. QED BY <1>2, <2>2, <2>3
<1>4. Failed(e) \in EntryOf(values) /\ Keeps(e, Failed(e)) BY DEF Failed
<1>5. ASSUME NEW b \in BOOLEAN PROVE Observed(e, b) \in EntryOf(values) /\ Keeps(e, Observed(e, b))
  <2>1. Observed(e, b) \in {e, Requested(e)} BY DEF Observed
  <2>2. Keeps(e, e) OBVIOUS
  <2> HIDE DEF EntryOf, Keeps
  <2>3. QED BY <1>2, <2>1, <2>2
<1>6. ASSUME NEW b \in BOOLEAN
      PROVE  /\ Invalidated(e, b) \in EntryOf(values) /\ Keeps(e, Invalidated(e, b))
             /\ Invalidated(e, b).invalid
  <2> DEFINE marked == [e EXCEPT !.invalid = TRUE]
  <2>1. /\ marked \in EntryOf(values) /\ marked.invalid /\ marked.data = e.data
        /\ marked.request = e.request /\ marked.read = e.read
    OBVIOUS
  <2>2. Invalidated(e, b) = IF b THEN Refetched(marked) ELSE marked BY DEF Invalidated
  <2> HIDE DEF marked
  <2>3. Refetched(marked) \in EntryOf(values) /\ Keeps(marked, Refetched(marked)) BY <1>3, <2>1
  <2> HIDE DEF EntryOf
  <2>4. QED BY <2>1, <2>2, <2>3
<1>7. QED BY <1>1, <1>3, <1>4, <1>5, <1>6

-----------------------------------------------------------------------------
(* Cancelling.                                                             *)

Statuses == {"ACTIVE"} \union Terminal
Cancellations == [pc : {"idle", "sent", "served", "refused", "over"},
                  previous : Statuses \union {None}, own : BOOLEAN]

CancelTypes == /\ status \in Statuses /\ detail \in EntryOf(Statuses)
               /\ cancels \in [Cancel -> Cancellations]

ReadsAreTrue == detail.request = "read" /\ detail.read = "CANCELLED" => status = "CANCELLED"

OptimismIsMarked ==
    (\A c \in Cancel : ~Pending(c)) /\ detail.data = "CANCELLED" /\ ~detail.invalid
    => status = "CANCELLED"

CancelInv == CancelTypes /\ ReadsAreTrue /\ OptimismIsMarked

(* The timeline.                                                           *)

Key == Instance \X Sheet
Feeds == [wanted : BOOLEAN, cursor : Sheet, applied : Sheet \union {None}, items : Seq(Key),
          carried : BOOLEAN]

TimelineTypes == feed \in Feeds /\ sheet \in [Key -> EntryOf(Sheet)]

FeedInOrder(f, p) ==
    /\ f.applied = None => f.cursor = 0 /\ f.items = <<>>
    /\ f.applied # None => /\ f.wanted /\ f.cursor \in {f.applied, f.applied + 1}
                           /\ Len(f.items) = f.applied + 1
    /\ \A k \in 1..Len(f.items) : f.items[k][2] = k - 1 /\ (f.items[k][1] = p \/ f.carried)

NotYetThere(f, p, sheets) == f.wanted /\ f.applied # f.cursor => sheets[<<p, f.cursor>>].data = None

TimelineInv ==
    /\ TimelineTypes
    /\ place \notin Instance => feed = NoFeed
    /\ FeedInOrder(feed, place) /\ NotYetThere(feed, place, sheet)

-----------------------------------------------------------------------------
(* A page just opened.                                                     *)
LEMMA InitPages == Init => CancelInv /\ TimelineInv
<1> SUFFICES ASSUME Init PROVE CancelInv /\ TimelineInv OBVIOUS
<1>1. \A values : Blank \in EntryOf(values) BY DEF Blank, EntryOf
<1>2. CancelInv
  <2>1. cancels \in [Cancel -> Cancellations] BY DEF Init, Cancellations
  <2>3. \A c \in Cancel : ~Pending(c) BY DEF Init, Pending
  <2>4. ~(detail.request = "read") BY DEF Init, Blank
  <2>5. detail.invalid = FALSE /\ detail.data = None BY DEF Init, Blank
  <2>6. QED BY <1>1, <2>1, <2>4, <2>5, NoneIsNoAnswer
        DEF Init, CancelInv, CancelTypes, ReadsAreTrue, OptimismIsMarked, Statuses, Terminal
<1>3. TimelineInv
  <2>1. 0 \in Sheet BY NoneIsNoAnswer DEF Sheet
  <2>2. NoFeed \in Feeds BY <2>1 DEF NoFeed, Feeds
  <2>3. sheet \in [Key -> EntryOf(Sheet)] BY <1>1 DEF Init, Key
  <2>4. FeedInOrder(NoFeed, place) BY DEF FeedInOrder, NoFeed
  <2>5. NotYetThere(NoFeed, place, sheet) BY DEF NotYetThere, NoFeed
  <2>6. QED BY <2>2, <2>3, <2>4, <2>5 DEF Init, TimelineInv, TimelineTypes
<1>4. QED BY <1>2, <1>3

-----------------------------------------------------------------------------
(* Cancelling.                                                             *)

(* Steps in which no cancellation is sent or settled, and the instance is  *)
(* at most asked for again.                                                *)
LEMMA AskingKeeps ==
    ASSUME CancelInv, status' = status, cancels' \in [Cancel -> Cancellations],
           \A c \in Cancel : cancels'[c].pc = cancels[c].pc,
           detail' \in EntryOf(Statuses), Keeps(detail, detail')
    PROVE  CancelInv'
<1>1. \A c \in Cancel : Pending(c)' <=> Pending(c) BY DEF Pending
<1>2. CancelTypes' BY DEF CancelInv, CancelTypes
<1>3. ReadsAreTrue' BY DEF CancelInv, ReadsAreTrue, Keeps
<1>4. OptimismIsMarked' BY <1>1 DEF CancelInv, OptimismIsMarked, Keeps
<1>5. QED BY <1>2, <1>3, <1>4 DEF CancelInv

(* The steps of this kind.                                                 *)
LEMMA OtherStepsKeep ==
    ASSUME CancelInv,
           \/ \E p \in {"board", "detail", "other"} \union Start, aged \in BOOLEAN : Visit(p, aged)
           \/ \E t \in {"history", "graph", "timeline"} : OpenTab(t)
           \/ LoadMore \/ Poll \/ PollGraph \/ PollBoard \/ AnswerFails
           \/ AskCancel \/ KeepInstance \/ OpenDialog \/ CloseDialog
           \/ \E s \in Start : Submit(s) \/ ServerStarts(s) \/ StartFails(s) \/ Refreshing(s) \/ Started(s)
    PROVE  CancelInv'
<1>t. /\ detail \in EntryOf(Statuses) /\ cancels \in [Cancel -> Cancellations]
      /\ Keeps(detail, detail)
  BY DEF CancelInv, CancelTypes, Keeps
<1>d. /\ Refetched(detail) \in EntryOf(Statuses) /\ Keeps(detail, Refetched(detail))
      /\ Failed(detail) \in EntryOf(Statuses) /\ Keeps(detail, Failed(detail))
      /\ \A b \in BOOLEAN : /\ Observed(detail, b) \in EntryOf(Statuses) /\ Keeps(detail, Observed(detail, b))
                            /\ Invalidated(detail, b) \in EntryOf(Statuses)
                            /\ Keeps(detail, Invalidated(detail, b))
  BY <1>t, EntriesKept
<1>o. ASSUME cancels' = cancels \/ cancels' = [c \in Cancel |-> [cancels[c] EXCEPT !.own = FALSE]]
      PROVE  /\ cancels' \in [Cancel -> Cancellations]
             /\ \A c \in Cancel : cancels'[c].pc = cancels[c].pc
  BY <1>t, <1>o DEF Cancellations
<1>e. ASSUME Everything(detail) PROVE detail' \in EntryOf(Statuses) /\ Keeps(detail, detail')
  BY <1>d, <1>e DEF Everything
<1>s. ASSUME NEW p, NEW aged \in BOOLEAN, Turn(p, aged), status' = status PROVE CancelInv'
  <2>1. detail' \in EntryOf(Statuses) /\ Keeps(detail, detail') BY <1>t, <1>d, <1>s DEF Turn
  <2>2. cancels' = cancels \/ cancels' = [c \in Cancel |-> [cancels[c] EXCEPT !.own = FALSE]]
    BY <1>s DEF Turn, Kept, Reset
  <2>3. QED BY <1>s, <1>o, <2>1, <2>2, AskingKeeps
<1>k. ASSUME status' = status, cancels' = cancels,
             detail' \in EntryOf(Statuses), Keeps(detail, detail')
      PROVE  CancelInv'
  BY <1>k, <1>t, AskingKeeps
<1>u. ASSUME status' = status, cancels' = cancels, detail' = detail PROVE CancelInv'
  BY <1>u, <1>k, <1>t
<1>1. ASSUME NEW p \in {"board", "detail", "other"} \union Start, NEW aged \in BOOLEAN, Visit(p, aged)
      PROVE  CancelInv'
  BY <1>1, <1>s DEF Visit, serverVars
<1>2. ASSUME NEW t \in {"history", "graph", "timeline"}, OpenTab(t) PROVE CancelInv'
  BY <1>2, <1>u DEF OpenTab, serverVars
<1>3. CASE LoadMore BY <1>3, <1>u DEF LoadMore, serverVars
<1>4. CASE Poll BY <1>4, <1>d, <1>k DEF Poll, serverVars
<1>5. CASE PollGraph BY <1>5, <1>d, <1>k DEF PollGraph, serverVars
<1>6. CASE PollBoard BY <1>6, <1>e, <1>k DEF PollBoard, serverVars
<1>7. CASE AnswerFails BY <1>7, <1>d, <1>k, <1>u DEF AnswerFails, serverVars
<1>8. CASE AskCancel \/ KeepInstance \/ OpenDialog \/ CloseDialog
  BY <1>8, <1>u DEF AskCancel, KeepInstance, OpenDialog, CloseDialog, serverVars
<1>9. ASSUME NEW s \in Start, Submit(s) \/ ServerStarts(s) \/ StartFails(s) PROVE CancelInv'
  BY <1>9, <1>u DEF Submit, ServerStarts, StartFails, serverVars
<1>10. ASSUME NEW s \in Start, Refreshing(s) PROVE CancelInv'
  BY <1>10, <1>e, <1>k DEF Refreshing, serverVars
<1>11. ASSUME NEW s \in Start, Started(s) PROVE CancelInv'
  BY <1>11, <1>s DEF Started, serverVars
<1>12. QED BY <1>1, <1>2, <1>3, <1>4, <1>5, <1>6, <1>7, <1>8, <1>9, <1>10, <1>11

(* What the server reads is true, and being cancelled is final.            *)
LEMMA ServerKeeps ==
    ASSUME CancelInv, ServerReads \/ Answer \/ OthersEnd \/ \E c \in Cancel : ServerCancels(c)
    PROVE  CancelInv'
<1>t. /\ status \in Statuses /\ detail \in EntryOf(Statuses) /\ cancels \in [Cancel -> Cancellations]
      /\ Keeps(detail, detail)
  BY DEF CancelInv, CancelTypes, Keeps
<1>u. ASSUME status' = status, cancels' = cancels, detail' = detail PROVE CancelInv'
  BY <1>u, <1>t, AskingKeeps
<1>1. CASE ServerReads
  <2>1. status' = status /\ cancels' = cancels BY <1>1 DEF ServerReads, serverVars
  <2>2. CASE detail' = detail BY <2>1, <2>2, <1>u
  <2>3. CASE detail' = ReadAt(detail, status)
    <3>1. /\ detail' \in EntryOf(Statuses) /\ detail'.read = status
          /\ detail'.data = detail.data /\ detail'.invalid = detail.invalid
      BY <2>3, <1>t DEF ReadAt, EntryOf
    <3>2. \A c \in Cancel : Pending(c)' <=> Pending(c) BY <2>1 DEF Pending
    <3>3. QED BY <2>1, <3>1, <3>2
          DEF CancelInv, CancelTypes, ReadsAreTrue, OptimismIsMarked
  <2>4. QED BY <1>1, <2>2, <2>3 DEF ServerReads
<1>2. CASE Answer
  <2>1. status' = status /\ cancels' = cancels BY <1>2 DEF Answer, serverVars
  <2>2. CASE detail' = detail BY <2>1, <2>2, <1>u
  <2>3. CASE detail.request = "read" /\ detail' = Answered(detail)
    <3>1. /\ detail' \in EntryOf(Statuses) /\ detail'.data = detail.read /\ detail'.request = "idle"
      BY <2>3, <1>t DEF Answered, Blank, EntryOf
    <3>2. detail'.data = "CANCELLED" => status' = "CANCELLED"
      BY <2>1, <2>3, <3>1 DEF CancelInv, ReadsAreTrue
    <3>3. QED BY <2>1, <3>1, <3>2
          DEF CancelInv, CancelTypes, ReadsAreTrue, OptimismIsMarked
  <2>4. QED BY <1>2, <2>2, <2>3 DEF Answer
<1>3. CASE OthersEnd
  <2>1. status = "ACTIVE" /\ status' = "COMPLETED" /\ cancels' = cancels /\ detail' = detail
    BY <1>3 DEF OthersEnd
  <2>2. \A c \in Cancel : Pending(c)' <=> Pending(c) BY <2>1 DEF Pending
  <2>3. QED BY <2>1, <2>2
        DEF CancelInv, CancelTypes, ReadsAreTrue, OptimismIsMarked, Statuses, Terminal
<1>4. ASSUME NEW c \in Cancel, ServerCancels(c) PROVE CancelInv'
  <2>1. /\ detail' = detail /\ status' \in {status, "CANCELLED"}
        /\ \E pc \in {"served", "refused"} : cancels' = [cancels EXCEPT ![c].pc = pc]
    BY <1>4 DEF ServerCancels
  <2>2. PICK pc \in {"served", "refused"} : cancels' = [cancels EXCEPT ![c].pc = pc] BY <2>1
  <2>3. cancels' \in [Cancel -> Cancellations] /\ cancels'[c].pc \in {"served", "refused"}
    BY <1>t, <2>2 DEF Cancellations
  <2>4. Pending(c)' BY <2>3 DEF Pending
  <2>5. QED BY <2>1, <2>3, <2>4, <1>t
        DEF CancelInv, CancelTypes, ReadsAreTrue, OptimismIsMarked, Statuses, Terminal
<1>5. QED BY <1>1, <1>2, <1>3, <1>4

(* What a mutation does to the instance in the cache: a status is written  *)
(* under a pending cancellation, and settling one marks what there is.     *)
LEMMA MutationKeeps ==
    ASSUME CancelInv,
           \E c \in Cancel : Confirm(c) \/ CancelOk(c) \/ CancelFails(c)
    PROVE  CancelInv'
<1>t. /\ status \in Statuses /\ detail \in EntryOf(Statuses) /\ cancels \in [Cancel -> Cancellations]
  BY DEF CancelInv, CancelTypes
<1>w. ASSUME NEW e \in EntryOf(Statuses), NEW v \in Statuses \union {None}
      PROVE  /\ Written(e, v) \in EntryOf(Statuses)
             /\ Written(e, v).request = e.request /\ Written(e, v).read = e.read
  BY DEF Written, EntryOf
(* Settling. *)
<1>s. ASSUME NEW c \in Cancel, NEW e \in EntryOf(Statuses), e.request = detail.request, e.read = detail.read,
             cancels' = [cancels EXCEPT ![c].pc = "over"], Settled(e), status' = status
      PROVE  CancelInv'
  <2> DEFINE once == Invalidated(e, place = "detail")
             twice == Invalidated(once, place = "detail")
  <2>1. once \in EntryOf(Statuses) /\ Keeps(e, once) BY EntriesKept
  <2>2. twice \in EntryOf(Statuses) /\ Keeps(once, twice) /\ twice.invalid
    <3> HIDE DEF once
    <3>1. QED BY <2>1, EntriesKept
  <2>3. detail' = twice BY <1>s DEF Settled, Everything
  <2> HIDE DEF once, twice
  <2>4. cancels' \in [Cancel -> Cancellations] BY <1>s, <1>t DEF Cancellations
  <2>5. ReadsAreTrue' BY <1>s, <2>1, <2>2, <2>3 DEF CancelInv, ReadsAreTrue, Keeps
  <2>6. QED BY <1>s, <1>t, <2>2, <2>3, <2>4, <2>5 DEF CancelInv, CancelTypes, OptimismIsMarked
<1>1. ASSUME NEW c \in Cancel, Confirm(c) PROVE CancelInv'
  <2>1. /\ cancels' = [cancels EXCEPT ![c] = [pc |-> "sent", previous |-> detail.data, own |-> TRUE]]
        /\ detail' = Written(Withdrawn(detail), "CANCELLED") /\ status' = status
    BY <1>1 DEF Confirm, serverVars
  <2>2. detail.data \in Statuses \union {None} BY <1>t DEF EntryOf
  <2>3. cancels' \in [Cancel -> Cancellations] /\ cancels'[c].pc = "sent"
    BY <1>t, <2>1, <2>2 DEF Cancellations
  <2>4. Pending(c)' BY <2>3 DEF Pending
  <2>5. Withdrawn(detail) \in EntryOf(Statuses) /\ Withdrawn(detail).request = "idle"
    BY <1>t DEF Withdrawn, EntryOf
  <2>6. detail' \in EntryOf(Statuses) /\ detail'.request = "idle"
    BY <1>w, <2>1, <2>5 DEF Statuses, Terminal
  <2>7. QED BY <1>t, <2>1, <2>3, <2>4, <2>6 DEF CancelInv, CancelTypes, ReadsAreTrue, OptimismIsMarked
<1>2. ASSUME NEW c \in Cancel, CancelOk(c) PROVE CancelInv'
  BY <1>2, <1>s, <1>t DEF CancelOk, serverVars
<1>3. ASSUME NEW c \in Cancel, CancelFails(c) PROVE CancelInv'
  <2>1. cancels[c].previous \in Statuses \union {None} BY <1>t DEF Cancellations
  <2>2. /\ Written(detail, cancels[c].previous) \in EntryOf(Statuses)
        /\ Written(detail, cancels[c].previous).request = detail.request
        /\ Written(detail, cancels[c].previous).read = detail.read
    BY <1>t, <1>w, <2>1
  <2>3. QED BY <1>3, <1>s, <2>2 DEF CancelFails, serverVars
<1>4. QED BY <1>1, <1>2, <1>3

LEMMA CancelSteps == CancelInv /\ [Next]_vars => CancelInv'
<1> SUFFICES ASSUME CancelInv, [Next]_vars PROVE CancelInv' OBVIOUS
<1>1. CASE \/ \E p \in {"board", "detail", "other"} \union Start, aged \in BOOLEAN : Visit(p, aged)
           \/ \E t \in {"history", "graph", "timeline"} : OpenTab(t)
           \/ LoadMore \/ Poll \/ PollGraph \/ PollBoard \/ AnswerFails
           \/ AskCancel \/ KeepInstance \/ OpenDialog \/ CloseDialog
           \/ \E s \in Start : Submit(s) \/ ServerStarts(s) \/ StartFails(s) \/ Refreshing(s) \/ Started(s)
  BY <1>1, OtherStepsKeep
<1>2. CASE ServerReads \/ Answer \/ OthersEnd \/ \E c \in Cancel : ServerCancels(c) BY <1>2, ServerKeeps
<1>3. CASE \E c \in Cancel : Confirm(c) \/ CancelOk(c) \/ CancelFails(c) BY <1>3, MutationKeeps
<1>4. CASE UNCHANGED vars
  BY <1>4 DEF vars, serverVars, CancelInv, CancelTypes, ReadsAreTrue, OptimismIsMarked, Pending
<1>5. QED BY <1>1, <1>2, <1>3, <1>4 DEF Next

(* Whatever fails, is left or overtaken on the way: without a cancellation *)
(* in flight, a page that waits for nothing shows as cancelled only what   *)
(* is, see NoPhantomCancel.                                                *)
THEOREM OptimismEnds == Spec => []NoPhantomCancel
<1>1. CancelInv => NoPhantomCancel BY DEF CancelInv, OptimismIsMarked, NoPhantomCancel
<1>2. QED BY InitPages, CancelSteps, <1>1, PTL DEF Spec

-----------------------------------------------------------------------------
(* The timeline.                                                           *)

(* A feed in order stays so when what is there is appended, and then it is *)
(* not behind its cursor unless the page is missing.                       *)
LEMMA MergingKeeps ==
    ASSUME NEW f \in Feeds, NEW p \in Instance, FeedInOrder(f, p), NEW sheets \in [Key -> EntryOf(Sheet)]
    PROVE  /\ Merged(f, p, sheets) \in Feeds /\ FeedInOrder(Merged(f, p, sheets), p)
           /\ NotYetThere(Merged(f, p, sheets), p, sheets)
<1>f. f.cursor \in Sheet /\ f.applied \in Sheet \union {None} /\ f.items \in Seq(Key) /\ f.wanted \in BOOLEAN
  BY DEF Feeds
<1>n. Sheet \subseteq Nat /\ 0 \in Sheet /\ None \notin Sheet BY NoneIsNoAnswer DEF Sheet
<1>1. CASE ~(f.wanted /\ sheets[<<p, f.cursor>>].data # None /\ f.applied # f.cursor)
  BY <1>1 DEF Merged, NotYetThere
<1>2. CASE f.wanted /\ sheets[<<p, f.cursor>>].data # None /\ f.applied # f.cursor
  <2> DEFINE items == IF f.cursor = 0 THEN << <<p, 0>> >> ELSE Append(f.items, <<p, f.cursor>>)
             g == [f EXCEPT !.items = items, !.applied = f.cursor]
  <2>1. Merged(f, p, sheets) = g BY <1>2 DEF Merged, Appended
  <2>2. items \in Seq(Key)
    <3>1. CASE f.cursor = 0 BY <3>1, <1>n DEF Key
    <3>2. CASE f.cursor # 0
      <4>1. <<p, f.cursor>> \in Key BY <1>f DEF Key
      <4>2. QED BY <3>2, <4>1, <1>f
    <3>3. QED BY <3>1, <3>2
  <2>3. Len(items) = f.cursor + 1 /\ \A k \in 1..Len(items) : items[k][2] = k - 1 /\ (items[k][1] = p \/ f.carried)
    <3>1. CASE f.cursor = 0
      <4>1. items = << <<p, 0>> >> BY <3>1
      <4> HIDE DEF items
      <4>2. Len(items) = 1 /\ items[1] = <<p, 0>> BY <4>1
      <4>3. QED BY <3>1, <4>2
    <3>2. CASE f.cursor # 0
      <4>1. f.applied # None /\ f.applied + 1 = f.cursor /\ Len(f.items) = f.cursor
        BY <1>2, <1>f, <1>n, <3>2 DEF FeedInOrder
      <4>2. items = Append(f.items, <<p, f.cursor>>) BY <3>2
      <4>3. \A k \in 1..Len(f.items) : f.items[k][2] = k - 1 /\ (f.items[k][1] = p \/ f.carried) BY DEF FeedInOrder
      <4> HIDE DEF items
      <4>4. /\ Len(items) = Len(f.items) + 1 /\ items[Len(f.items) + 1] = <<p, f.cursor>>
            /\ \A k \in 1..Len(f.items) : items[k] = f.items[k]
        BY <1>f, <4>2
      <4>5. ASSUME NEW k \in 1..Len(items) PROVE items[k][2] = k - 1 /\ (items[k][1] = p \/ f.carried)
        <5>1. f.cursor \in Nat /\ Len(f.items) = f.cursor /\ Len(items) = f.cursor + 1 BY <1>f, <1>n, <4>1, <4>4
        <5>2. CASE k = f.cursor + 1 BY <4>4, <5>1, <5>2
        <5>3. CASE k # f.cursor + 1
          <6>1. k \in 1..Len(f.items) BY <5>1, <5>3
          <6>2. items[k] = f.items[k] BY <4>4, <6>1
          <6>3. QED BY <4>3, <6>1, <6>2
        <5>4. QED BY <5>2, <5>3
      <4>6. QED BY <4>1, <4>4, <4>5
    <3>3. QED BY <3>1, <3>2
  <2> HIDE DEF items
  <2>4. /\ g \in Feeds /\ g.items = items /\ g.applied = f.cursor /\ g.cursor = f.cursor /\ g.wanted
        /\ g.carried = f.carried
    BY <1>2, <1>f, <2>2 DEF Feeds
  <2> HIDE DEF g
  <2>5. FeedInOrder(g, p) BY <1>f, <1>n, <2>3, <2>4 DEF FeedInOrder
  <2>6. QED BY <2>1, <2>4, <2>5 DEF NotYetThere
<1>3. QED BY <1>1, <1>2

(* Steps after which the feed shows the same, or the page is another one,  *)
(* and the pages of the timeline hold what they held.                      *)
LEMMA StillKeeps ==
    ASSUME TimelineInv, \/ feed' = NoFeed
                        \/ feed' = feed /\ place' = place,
           sheet' \in [Key -> EntryOf(Sheet)], \A c \in Key : sheet'[c].data = sheet[c].data
    PROVE  TimelineInv'
<1>1. CASE feed' = NoFeed
  <2>1. 0 \in Sheet BY NoneIsNoAnswer DEF Sheet
  <2>2. NoFeed \in Feeds /\ ~NoFeed.wanted BY <2>1 DEF NoFeed, Feeds
  <2>3. FeedInOrder(NoFeed, place') BY DEF FeedInOrder, NoFeed
  <2>4. QED BY <1>1, <2>2, <2>3 DEF TimelineInv, TimelineTypes, NotYetThere
<1>2. CASE feed' = feed /\ place' = place
  <2>1. feed.cursor \in Sheet BY DEF TimelineInv, TimelineTypes, Feeds
  <2>2. CASE place \in Instance
    <3>1. <<place, feed.cursor>> \in Key BY <2>1, <2>2 DEF Key
    <3>2. QED BY <1>2, <2>2, <3>1 DEF TimelineInv, TimelineTypes, NotYetThere
  <2>3. CASE place \notin Instance
    <3>1. ~feed.wanted BY <2>3 DEF TimelineInv, NoFeed
    <3>2. QED BY <1>2, <2>3, <3>1 DEF TimelineInv, TimelineTypes, NotYetThere
  <2>4. QED BY <2>2, <2>3
<1>3. QED BY <1>1, <1>2

(* What happens to the pages of the timeline short of an answer.           *)
LEMMA SheetsKept ==
    ASSUME TimelineInv
    PROVE  /\ \A c \in Key, b \in BOOLEAN :
                LET sheets == [sheet EXCEPT ![c] = Observed(@, b)]
                IN sheets \in [Key -> EntryOf(Sheet)] /\ \A s \in Key : sheets[s].data = sheet[s].data
           /\ \A c \in Key :
                LET sheets == [sheet EXCEPT ![c] = Failed(@)]
                IN sheets \in [Key -> EntryOf(Sheet)] /\ \A s \in Key : sheets[s].data = sheet[s].data
           /\ \A c \in Key :
                LET sheets == [sheet EXCEPT ![c] = ReadAt(@, c[2])]
                IN sheets \in [Key -> EntryOf(Sheet)] /\ \A s \in Key : sheets[s].data = sheet[s].data
           /\ \A d : Everything(d) => /\ sheet' \in [Key -> EntryOf(Sheet)]
                                      /\ \A s \in Key : sheet'[s].data = sheet[s].data
<1>1. sheet \in [Key -> EntryOf(Sheet)] BY DEF TimelineInv, TimelineTypes
<1>2. ASSUME NEW c \in Key, NEW b \in BOOLEAN
      PROVE  /\ Observed(sheet[c], b) \in EntryOf(Sheet) /\ Observed(sheet[c], b).data = sheet[c].data
             /\ Failed(sheet[c]) \in EntryOf(Sheet) /\ Failed(sheet[c]).data = sheet[c].data
             /\ Invalidated(sheet[c], b) \in EntryOf(Sheet)
             /\ Invalidated(sheet[c], b).data = sheet[c].data
  <2>1. sheet[c] \in EntryOf(Sheet) BY <1>1
  <2>2. QED BY <2>1, EntriesKept DEF Keeps
<1>3. ASSUME NEW c \in Key
      PROVE  ReadAt(sheet[c], c[2]) \in EntryOf(Sheet) /\ ReadAt(sheet[c], c[2]).data = sheet[c].data
  <2>1. sheet[c] \in EntryOf(Sheet) BY <1>1
  <2>2. c[2] \in Sheet BY DEF Key
  <2>3. QED BY <2>1, <2>2 DEF ReadAt, EntryOf
<1>4. ASSUME NEW d, Everything(d)
      PROVE  sheet' \in [Key -> EntryOf(Sheet)] /\ \A s \in Key : sheet'[s].data = sheet[s].data
  <2>1. sheet' = [c \in Key |-> IF sheet[c] = Blank THEN Blank ELSE Invalidated(sheet[c], OnSheet(c))]
    BY <1>4 DEF Everything, Key
  <2>2. ASSUME NEW c \in Key PROVE OnSheet(c) \in BOOLEAN
    BY DEF OnSheet, TimelineInv, TimelineTypes, Feeds
  <2>3. Blank \in EntryOf(Sheet) BY DEF Blank, EntryOf
  <2>4. QED BY <1>2, <2>1, <2>2, <2>3
<1>5. QED BY <1>1, <1>2, <1>3, <1>4

(* The feed is asked for, or its next page.                                *)
LEMMA FeedStepsKeep ==
    ASSUME TimelineInv, LoadMore \/ \E t \in {"history", "graph", "timeline"} : OpenTab(t)
    PROVE  TimelineInv'
<1>t. /\ feed \in Feeds /\ sheet \in [Key -> EntryOf(Sheet)] /\ FeedInOrder(feed, place)
      /\ NotYetThere(feed, place, sheet)
      /\ feed.cursor \in Sheet /\ feed.applied \in Sheet \union {None} /\ feed.items \in Seq(Key)
  BY DEF TimelineInv, TimelineTypes, Feeds
<1>n. Sheet = 0..LastSheet /\ LastSheet \in Nat /\ None \notin Sheet BY NoneIsNoAnswer DEF Sheet
<1>m. ASSUME NEW f \in Feeds, FeedInOrder(f, place), NEW sheets \in [Key -> EntryOf(Sheet)],
             feed' = Merged(f, place, sheets), sheet' = sheets, place \in Instance, place' = place
      PROVE  TimelineInv'
  <2>1. /\ feed' \in Feeds /\ FeedInOrder(feed', place) /\ NotYetThere(feed', place, sheets)
    BY <1>m, MergingKeeps
  <2>2. QED BY <1>m, <2>1 DEF TimelineInv, TimelineTypes
<1>1. CASE LoadMore
  <2> DEFINE f == [feed EXCEPT !.cursor = @ + 1]
             sheets == [sheet EXCEPT ![<<place, f.cursor>>] = Observed(@, FALSE)]
  <2>1. /\ place \in Instance /\ place' = place /\ feed.items # <<>>
        /\ sheet[<<place, feed.cursor>>].data # None /\ feed.cursor < LastSheet
        /\ feed' = Merged(f, place, sheets) /\ sheet' = sheets
    BY <1>1 DEF LoadMore, OffersMore, Shown, Instance
  <2>2. feed.applied # None BY <1>t, <2>1 DEF FeedInOrder
  <2>3. feed.wanted /\ feed.applied = feed.cursor BY <1>t, <2>1, <2>2 DEF FeedInOrder, NotYetThere
  <2>4. feed.cursor + 1 \in Sheet /\ <<place, feed.cursor + 1>> \in Key BY <1>n, <1>t, <2>1 DEF Key
  <2>5. /\ f \in Feeds /\ f.cursor = feed.cursor + 1 /\ f.applied = feed.applied
        /\ f.items = feed.items /\ f.wanted = feed.wanted /\ f.carried = feed.carried
    BY <1>t, <2>4 DEF Feeds
  <2>6. FeedInOrder(f, place) BY <1>t, <2>2, <2>3, <2>5 DEF FeedInOrder
  <2>7. sheets \in [Key -> EntryOf(Sheet)] BY <2>4, <2>5, SheetsKept
  <2> HIDE DEF f, sheets
  <2>8. QED BY <1>m, <2>1, <2>5, <2>6, <2>7
<1>2. ASSUME NEW t \in {"history", "graph", "timeline"}, OpenTab(t) PROVE TimelineInv'
  <2> DEFINE f == IF t = "timeline" THEN [feed EXCEPT !.wanted = TRUE] ELSE feed
             sheets == [sheet EXCEPT ![<<place, f.cursor>>] = IF f.wanted /\ ~feed.wanted
                                                   THEN Observed(@, FALSE) ELSE @]
  <2>1. place \in Instance /\ place' = place /\ feed' = Merged(f, place, sheets) /\ sheet' = sheets
    BY <1>2 DEF OpenTab, Shown, Instance
  <2>2. /\ f \in Feeds /\ f.cursor = feed.cursor /\ f.applied = feed.applied /\ f.items = feed.items
        /\ f.carried = feed.carried /\ (feed.wanted => f.wanted)
    BY <1>t DEF Feeds
  <2>3. FeedInOrder(f, place) BY <1>t, <2>2 DEF FeedInOrder
  <2>4. sheets \in [Key -> EntryOf(Sheet)]
    <3>1. [sheet EXCEPT ![<<place, feed.cursor>>] = Observed(sheet[<<place, feed.cursor>>], FALSE)] \in [Key -> EntryOf(Sheet)]
      BY <1>t, SheetsKept
    <3>2. sheets \in {sheet, [sheet EXCEPT ![<<place, feed.cursor>>] = Observed(sheet[<<place, feed.cursor>>], FALSE)]}
      <4>1. sheets = [sheet EXCEPT ![<<place, feed.cursor>>] = IF f.wanted /\ ~feed.wanted
                                                    THEN Observed(sheet[<<place, feed.cursor>>], FALSE)
                                                    ELSE sheet[<<place, feed.cursor>>]]
        BY <2>2
      <4> HIDE DEF sheets
      <4>2. CASE f.wanted /\ ~feed.wanted BY <4>1, <4>2
      <4>3. CASE ~(f.wanted /\ ~feed.wanted)
        <5>1. sheets = [sheet EXCEPT ![<<place, feed.cursor>>] = sheet[<<place, feed.cursor>>]] BY <4>1, <4>3
        <5>2. QED BY <5>1, <1>t
      <4>4. QED BY <4>2, <4>3
    <3>3. QED BY <1>t, <3>1, <3>2
  <2> HIDE DEF f, sheets
  <2>5. QED BY <1>m, <2>1, <2>2, <2>3, <2>4
<1>3. QED BY <1>1, <1>2

(* Another page, or the same one for another instance: of a feed that was  *)
(* not asked for there is nothing to carry.                                *)
LEMMA TurnKeeps == ASSUME TimelineInv, NEW p, NEW aged, Turn(p, aged) PROVE TimelineInv'
<1>t. /\ feed \in Feeds /\ sheet \in [Key -> EntryOf(Sheet)] /\ FeedInOrder(feed, place)
      /\ feed.cursor \in Sheet /\ feed.applied \in Sheet \union {None} /\ feed.items \in Seq(Key)
      /\ feed.wanted \in BOOLEAN /\ feed.carried \in BOOLEAN
  BY DEF TimelineInv, TimelineTypes, Feeds
<1>1. CASE ~(place \in Instance /\ p \in Instance)
  BY <1>1, <1>t, StillKeeps DEF Turn, Reset
<1>2. CASE place \in Instance /\ p \in Instance
  <2> DEFINE f == [feed EXCEPT !.carried = @ \/ (feed.wanted /\ p # place)]
             sheets == IF f.wanted THEN [sheet EXCEPT ![<<p, f.cursor>>] = Observed(@, FALSE)] ELSE sheet
  <2>1. feed' = Merged(f, p, sheets) /\ sheet' = sheets /\ place' = p
    BY <1>2 DEF Turn, Kept
  <2>2. /\ f \in Feeds /\ f.cursor = feed.cursor /\ f.applied = feed.applied /\ f.items = feed.items
        /\ f.wanted = feed.wanted /\ f.carried = (feed.carried \/ (feed.wanted /\ p # place))
    BY <1>t DEF Feeds
  <2>3. FeedInOrder(f, p)
    <3>1. CASE feed.applied = None BY <1>t, <2>2, <3>1 DEF FeedInOrder
    <3>2. CASE feed.applied # None
      <4>1. feed.wanted BY <1>t, <3>2 DEF FeedInOrder
      <4>2. p = place \/ f.carried BY <2>2, <4>1
      <4>3. QED BY <1>t, <2>2, <3>2, <4>2 DEF FeedInOrder
    <3>3. QED BY <3>1, <3>2
  <2>4. sheets \in [Key -> EntryOf(Sheet)]
    <3>1. <<p, feed.cursor>> \in Key BY <1>2, <1>t DEF Key
    <3>2. [sheet EXCEPT ![<<p, feed.cursor>>] = Observed(@, FALSE)] \in [Key -> EntryOf(Sheet)]
      BY <3>1, SheetsKept
    <3>3. QED BY <1>t, <2>2, <3>2
  <2> HIDE DEF f, sheets
  <2>5. /\ feed' \in Feeds /\ FeedInOrder(feed', p) /\ NotYetThere(feed', p, sheets)
    BY <1>2, <2>1, <2>2, <2>3, <2>4, MergingKeeps
  <2>6. QED BY <1>2, <2>1, <2>4, <2>5 DEF TimelineInv, TimelineTypes
<1>3. QED BY <1>1, <1>2

(* An answer, to the page of the cursor or to another one.                 *)
LEMMA AnswerKeepsFeed == ASSUME TimelineInv, Answer PROVE TimelineInv'
<1>t. feed \in Feeds /\ sheet \in [Key -> EntryOf(Sheet)] /\ FeedInOrder(feed, place)
  BY DEF TimelineInv, TimelineTypes
<1>1. sheet' \in [Key -> EntryOf(Sheet)]
  <2>1. CASE sheet' = sheet BY <1>t, <2>1
  <2>2. ASSUME NEW c \in Key, sheet' = [sheet EXCEPT ![c] = Answered(@)]
        PROVE  sheet' \in [Key -> EntryOf(Sheet)]
    <3>1. sheet[c] \in EntryOf(Sheet) BY <1>t
    <3>2. Answered(sheet[c]) \in EntryOf(Sheet) BY <3>1 DEF Answered, Blank, EntryOf
    <3>3. QED BY <1>t, <2>2, <3>2
  <2>3. QED BY <2>1, <2>2 DEF Answer, Key
<1>2. place' = place /\ feed' = IF place \in Instance THEN Merged(feed, place, sheet') ELSE feed
  BY DEF Answer
<1>3. CASE place \in Instance
  <2>1. feed' \in Feeds /\ FeedInOrder(feed', place) /\ NotYetThere(feed', place, sheet')
    BY <1>t, <1>1, <1>2, <1>3, MergingKeeps
  <2>2. QED BY <1>1, <1>2, <1>3, <2>1 DEF TimelineInv, TimelineTypes
<1>4. CASE place \notin Instance
  <2>1. feed = NoFeed /\ feed' = feed BY <1>2, <1>4 DEF TimelineInv
  <2>2. ~NoFeed.wanted BY DEF NoFeed
  <2>3. QED BY <1>t, <1>1, <1>2, <1>4, <2>1, <2>2 DEF TimelineInv, TimelineTypes, NotYetThere
<1>5. QED BY <1>3, <1>4

LEMMA TimelineSteps == TimelineInv /\ [Next]_vars => TimelineInv'
<1> SUFFICES ASSUME TimelineInv, [Next]_vars PROVE TimelineInv' OBVIOUS
<1>t. sheet \in [Key -> EntryOf(Sheet)] BY DEF TimelineInv, TimelineTypes
<1>s. ASSUME feed' = NoFeed \/ (feed' = feed /\ place' = place), sheet' = sheet PROVE TimelineInv'
  BY <1>s, <1>t, StillKeeps
<1>e. ASSUME NEW d, Everything(d), feed' = feed, place' = place PROVE TimelineInv'
  BY <1>e, SheetsKept, StillKeeps
<1>1. ASSUME NEW p, NEW aged, Visit(p, aged) PROVE TimelineInv' BY <1>1, TurnKeeps DEF Visit
<1>2. CASE LoadMore \/ \E t \in {"history", "graph", "timeline"} : OpenTab(t) BY <1>2, FeedStepsKeep
<1>3. CASE Poll \/ PollGraph BY <1>3, <1>s DEF Poll, PollGraph, detailPage
<1>4. CASE PollBoard BY <1>4, <1>e DEF PollBoard, detailPage
<1>5. CASE ServerReads
  <2>1. feed' = feed /\ place' = place BY <1>5 DEF ServerReads, detailPage
  <2>2. CASE sheet' = sheet BY <2>1, <2>2, <1>s
  <2>3. ASSUME NEW c \in Key, sheet' = [sheet EXCEPT ![c] = ReadAt(@, c[2])] PROVE TimelineInv'
    BY <2>1, <2>3, SheetsKept, StillKeeps
  <2>4. QED BY <1>5, <2>2, <2>3 DEF ServerReads, Key
<1>6. CASE Answer BY <1>6, AnswerKeepsFeed
<1>7. CASE AnswerFails
  <2>1. feed' = feed /\ place' = place BY <1>7 DEF AnswerFails, detailPage
  <2>2. CASE sheet' = sheet BY <2>1, <2>2, <1>s
  <2>3. ASSUME NEW c \in Key, sheet' = [sheet EXCEPT ![c] = Failed(@)] PROVE TimelineInv'
    BY <2>1, <2>3, SheetsKept, StillKeeps
  <2>4. QED BY <1>7, <2>2, <2>3 DEF AnswerFails, Key
<1>8. CASE AskCancel \/ KeepInstance \/ OthersEnd \/ OpenDialog \/ CloseDialog
  BY <1>8, <1>s DEF AskCancel, KeepInstance, OthersEnd, OpenDialog, CloseDialog, detailPage
<1>9. ASSUME NEW c \in Cancel, Confirm(c) \/ ServerCancels(c) PROVE TimelineInv'
  BY <1>9, <1>s DEF Confirm, ServerCancels, detailPage
<1>10. ASSUME NEW c \in Cancel, CancelOk(c) \/ CancelFails(c) PROVE TimelineInv'
  BY <1>10, <1>e DEF CancelOk, CancelFails, Settled, detailPage
<1>11. ASSUME NEW s \in Start, Submit(s) \/ ServerStarts(s) \/ StartFails(s) PROVE TimelineInv'
  BY <1>11, <1>s DEF Submit, ServerStarts, StartFails, detailPage
<1>12. ASSUME NEW s \in Start, Refreshing(s) PROVE TimelineInv' BY <1>12, <1>e DEF Refreshing, detailPage
<1>13. ASSUME NEW s \in Start, Started(s) PROVE TimelineInv' BY <1>13, TurnKeeps DEF Started
<1>14. CASE UNCHANGED vars BY <1>14, <1>s DEF vars, detailPage
<1>15. QED BY <1>1, <1>2, <1>3, <1>4, <1>5, <1>6, <1>7, <1>8, <1>9, <1>10, <1>11, <1>12, <1>13, <1>14
       DEF Next

(* The timeline shows the pages asked for, from the first, in order and    *)
(* once each, and of this instance unless it was kept from the page of     *)
(* another one, see FeedIsWhole.                                           *)
THEOREM TimelineInOrder == Spec => []FeedIsWhole
<1>1. TimelineInv => FeedIsWhole BY DEF TimelineInv, FeedInOrder, FeedIsWhole
<1>2. QED BY InitPages, TimelineSteps, <1>1, PTL DEF Spec

-----------------------------------------------------------------------------
(* The address of the board.                                               *)

Names == Text \union {Nothing}
FilterSet == [statuses : SUBSET Status, id : Names]
Addresses == [statuses : SUBSET Status, name : Names, id : Names, cursor : FilterSet \union {Nothing}]
Dialogs == [open : BOOLEAN, name : Names, version : Names]

BoardTypes ==
    /\ address \in Addresses /\ start \in Dialogs
    /\ offered \in SUBSET Definition /\ active \in Names /\ borrowed \in BOOLEAN

VersionOfAddress == active # Nothing => active = address.id

BoardInv == BoardTypes /\ VersionOfAddress /\ AddressFits

(* Going to an address that fits keeps the rest fitting to it.             *)
LEMMA GotoKeeps ==
    ASSUME BoardInv, NEW a \in Addresses, Goto(a),
           offered' \in SUBSET Definition, borrowed' \in BOOLEAN,
           a.id # Nothing => a.name = a.id,
           a.cursor # Nothing /\ ~borrowed' => a.cursor = [statuses |-> a.statuses, id |-> a.id]
    PROVE  BoardInv'
<1>1. address' = a BY DEF Goto
<1>2. start' \in Dialogs /\ active' \in Names
  <2>1. Nothing \in Names BY DEF Names
  <2>2. CASE a.id = address.id BY <2>1, <2>2 DEF Goto, BoardInv, BoardTypes
  <2>3. CASE a.id # address.id BY <2>1, <2>3 DEF Goto, BoardInv, BoardTypes, Dialogs
  <2>4. QED BY <2>2, <2>3
<1>3. BoardTypes' BY <1>1, <1>2 DEF BoardTypes
<1>4. active' # Nothing => active' = address'.id
  BY <1>1 DEF Goto, BoardInv, VersionOfAddress
<1>5. start'.version # Nothing => start'.version = address'.id
  <2>1. CASE a.id = address.id BY <1>1, <2>1 DEF Goto, BoardInv, AddressFits
  <2>2. CASE a.id # address.id BY <2>2 DEF Goto, BoardInv, BoardTypes, Dialogs
  <2>3. QED BY <2>1, <2>2
<1>6. QED BY <1>1, <1>3, <1>4, <1>5 DEF BoardInv, VersionOfAddress, AddressFits, Filters

(* The page opens with an address that fits.                               *)
LEMMA BoardInitFits == BoardInit => BoardInv
<1> SUFFICES ASSUME BoardInit PROVE BoardInv OBVIOUS
<1>1. Nothing \in Names BY DEF Names
<1>2. address \in Addresses /\ address.id = Nothing /\ address.cursor = Nothing
  BY <1>1 DEF BoardInit, Addresses
<1>3. start \in Dialogs /\ start.version = Nothing BY <1>1 DEF BoardInit, Dialogs
<1>4. QED BY <1>1, <1>2, <1>3 DEF BoardInit, BoardInv, BoardTypes, VersionOfAddress, AddressFits

(* The actions that change nothing but the dialog or what is loaded.       *)
LEMMA LocalStepsFit ==
    ASSUME BoardInv, TypeaheadAnswers \/ VersionAnswers \/ OpenStart \/ CloseStart
    PROVE  BoardInv'
<1>1. CASE TypeaheadAnswers
  BY <1>1 DEF TypeaheadAnswers, BoardInv, BoardTypes, VersionOfAddress, AddressFits, Filters
<1>2. CASE VersionAnswers
  <2>1. address.id \in Names BY DEF BoardInv, BoardTypes, Addresses
  <2>2. start' \in Dialogs /\ start'.version = address.id
    BY <1>2, <2>1 DEF VersionAnswers, BoardInv, BoardTypes, Dialogs
  <2>3. QED BY <1>2, <2>1, <2>2 DEF VersionAnswers, BoardInv, BoardTypes, VersionOfAddress, AddressFits, Filters
<1>3. CASE OpenStart
  <2>1. address.name \in Names BY DEF BoardInv, BoardTypes, Addresses
  <2>2. start' \in Dialogs /\ start'.version = active
    BY <1>3, <2>1 DEF OpenStart, BoardInv, BoardTypes, Dialogs
  <2>3. QED BY <1>3, <2>2 DEF OpenStart, BoardInv, BoardTypes, VersionOfAddress, AddressFits, Filters
<1>4. CASE CloseStart
  <2>1. start' \in Dialogs /\ start'.version = start.version
    BY <1>4 DEF CloseStart, BoardInv, BoardTypes, Dialogs
  <2>2. QED BY <1>4, <2>1 DEF CloseStart, BoardInv, BoardTypes, VersionOfAddress, AddressFits, Filters
<1>5. QED BY <1>1, <1>2, <1>3, <1>4

(* The filter bar and the paging buttons go to another address.            *)
LEMMA FilterStepsFit ==
    ASSUME BoardInv,
           \/ \E s \in Status : StatusToggle(s)
           \/ \E text \in Names : DefinitionInput(text)
           \/ ResolveDefinition \/ NextPage \/ FirstPage
    PROVE  BoardInv'
<1> USE DEF Names
<1>a. address \in Addresses /\ borrowed \in BOOLEAN /\ offered \in SUBSET Definition
  BY DEF BoardInv, BoardTypes
<1>f. /\ address.id # Nothing => address.name = address.id
      /\ address.cursor # Nothing /\ ~borrowed => address.cursor = [statuses |-> address.statuses, id |-> address.id]
  BY DEF BoardInv, AddressFits, Filters
<1>1. ASSUME NEW s \in Status, StatusToggle(s) PROVE BoardInv'
  <2> DEFINE a == [address EXCEPT !.statuses = Toggled(s), !.cursor = Nothing]
  <2>1. Toggled(s) \in SUBSET Status BY <1>a DEF Toggled, Addresses
  <2>2. a \in Addresses BY <1>a, <2>1 DEF Addresses
  <2>3. a.id = address.id /\ a.name = address.name /\ a.cursor = Nothing BY <1>a DEF Addresses
  <2>4. Goto(a) /\ offered' = offered /\ borrowed' = borrowed BY <1>1 DEF StatusToggle
  <2> HIDE DEF a
  <2>5. QED BY <1>a, <1>f, <2>2, <2>3, <2>4, GotoKeeps
<1>2. ASSUME NEW text \in Names, DefinitionInput(text) PROVE BoardInv'
  <2> DEFINE a == [address EXCEPT !.name = text, !.id = Nothing, !.cursor = Nothing]
  <2>1. a \in Addresses BY <1>a DEF Addresses
  <2>2. a.id = Nothing /\ a.cursor = Nothing BY <1>a DEF Addresses
  <2>3. Goto(a) /\ offered' = {} /\ borrowed' = FALSE BY <1>2 DEF DefinitionInput
  <2> HIDE DEF a
  <2>4. QED BY <2>1, <2>2, <2>3, GotoKeeps
<1>3. CASE ResolveDefinition
  <2> DEFINE a == [address EXCEPT !.id = address.name, !.cursor = Nothing]
  <2>1. a \in Addresses BY <1>a DEF Addresses
  <2>2. a.id = a.name /\ a.cursor = Nothing BY <1>a DEF Addresses
  <2>3. Goto(a) /\ offered' = offered /\ borrowed' = FALSE BY <1>3 DEF ResolveDefinition
  <2> HIDE DEF a
  <2>4. QED BY <1>a, <2>1, <2>2, <2>3, GotoKeeps
<1>4. CASE NextPage
  <2> DEFINE a == [address EXCEPT !.cursor = Filters]
  <2>1. Filters \in FilterSet BY <1>a DEF Filters, FilterSet, Addresses
  <2>2. a \in Addresses BY <1>a, <2>1 DEF Addresses
  <2>3. a.id = address.id /\ a.name = address.name /\ a.cursor = [statuses |-> a.statuses, id |-> a.id]
    BY <1>a DEF Addresses, Filters
  <2>4. Goto(a) /\ offered' = offered /\ borrowed' = FALSE BY <1>4 DEF NextPage
  <2> HIDE DEF a
  <2>5. QED BY <1>a, <1>f, <2>2, <2>3, <2>4, GotoKeeps
<1>5. CASE FirstPage
  <2> DEFINE a == [address EXCEPT !.cursor = Nothing]
  <2>1. a \in Addresses BY <1>a DEF Addresses
  <2>2. a.id = address.id /\ a.name = address.name /\ a.cursor = Nothing BY <1>a DEF Addresses
  <2>3. Goto(a) /\ offered' = offered /\ borrowed' = borrowed BY <1>5 DEF FirstPage
  <2> HIDE DEF a
  <2>4. QED BY <1>a, <1>f, <2>1, <2>2, <2>3, GotoKeeps
<1>6. QED BY <1>1, <1>2, <1>3, <1>4, <1>5

(* The start dialog writes to the address behind the filter bar.           *)
LEMMA StartNameFits ==
    ASSUME BoardInv, NEW text \in Names, StartNameInput(text)
    PROVE  BoardInv'
<1>a. address \in Addresses /\ start \in Dialogs /\ active \in Names /\ borrowed \in BOOLEAN
      /\ offered \in SUBSET Definition
  BY DEF BoardInv, BoardTypes
<1>1. CASE text \in offered
  <2> DEFINE a == [address EXCEPT !.name = text, !.id = text]
  <2>1. a \in Addresses BY <1>a DEF Addresses, Names
  <2>2. a.id = text /\ a.name = text /\ a.cursor = address.cursor BY <1>a DEF Addresses
  <2>3. /\ address' = a /\ active' = IF a.id = address.id THEN active ELSE Nothing
        /\ start' = [start EXCEPT !.name = text, !.version = IF a.id = address.id THEN text ELSE Nothing]
        /\ borrowed' = (a # address \/ borrowed)
        /\ offered' = IF a.name = address.name THEN offered ELSE {}
    BY <1>1 DEF StartNameInput
  <2>n. Nothing \in Names BY DEF Names
  <2>4. /\ start' \in Dialogs
        /\ start'.version = IF a.id = address.id THEN text ELSE Nothing
    BY <1>a, <2>3, <2>n DEF Dialogs
  <2>5. a = address \/ borrowed' BY <2>3
  <2> HIDE DEF a
  <2>6. BoardTypes' BY <1>a, <2>1, <2>3, <2>4, <2>n DEF BoardTypes
  <2>7. VersionOfAddress' BY <2>2, <2>3 DEF BoardInv, VersionOfAddress
  <2>8. address'.cursor # Nothing /\ ~borrowed' => address'.cursor = [statuses |-> address'.statuses, id |-> address'.id]
    BY <1>a, <2>3, <2>5 DEF BoardInv, AddressFits, Filters
  <2>9. QED BY <2>2, <2>3, <2>4, <2>6, <2>7, <2>8 DEF BoardInv, AddressFits, Filters
<1>2. CASE text \notin offered
  <2>1. /\ start' = [start EXCEPT !.name = text, !.version = Nothing]
        /\ UNCHANGED <<address, active, offered, borrowed>>
    BY <1>2 DEF StartNameInput
  <2>2. start' \in Dialogs /\ start'.version = Nothing BY <1>a, <2>1 DEF Dialogs, Names
  <2>3. QED BY <2>1, <2>2 DEF BoardInv, BoardTypes, VersionOfAddress, AddressFits, Filters
<1>3. QED BY <1>1, <1>2

(* Every step of the board keeps its address fitting.                      *)
LEMMA NextFits == BoardInv /\ [BoardNext]_boardVars => BoardInv'
<1> SUFFICES ASSUME BoardInv, [BoardNext]_boardVars PROVE BoardInv' OBVIOUS
<1>1. CASE TypeaheadAnswers \/ VersionAnswers \/ OpenStart \/ CloseStart BY <1>1, LocalStepsFit
<1>2. CASE \/ \E s \in Status : StatusToggle(s)
           \/ \E text \in Names : DefinitionInput(text)
           \/ ResolveDefinition \/ NextPage \/ FirstPage
  BY <1>2, FilterStepsFit
<1>3. CASE \E text \in Names : StartNameInput(text) BY <1>3, StartNameFits
<1>4. CASE UNCHANGED boardVars
  BY <1>4 DEF boardVars, BoardInv, BoardTypes, VersionOfAddress, AddressFits, Filters
<1>5. QED BY <1>1, <1>2, <1>3, <1>4 DEF BoardNext, Names

(* The named definition is the one that a start would take, its version    *)
(* its own, and the cursor one of these filters: see AddressFits.          *)
THEOREM AddressesFit == BoardSpec => []AddressFits
<1>1. BoardInv => AddressFits BY DEF BoardInv
<1>2. QED BY BoardInitFits, NextFits, <1>1, PTL DEF BoardSpec
=============================================================================
