---------------------------- MODULE LiveReaders ----------------------------
(***************************************************************************)
(* The lock-free readers of the live schedule, beside the writers of        *)
(* ScheduleStore: the live-head route, which reads two pointers in two      *)
(* statements, and the change stream, which pages through the accepted      *)
(* operations and is resumed by its client after every lost connection.     *)
(***************************************************************************)
EXTENDS ScheduleStore

CONSTANT PageSize       \* rows of one poll of the stream (100 in the code)

ASSUME PageSizeAssumption == PageSize \in Nat \ {0}

VARIABLES
    look,       \* the live-head request being answered
    feed        \* the stream connection, and what its client has received

readers == <<look, feed>>

(* A look is idle, has seen that no live version exists, or has its answer. *)
(* valid is a history variable: every version that was the live head since  *)
(* the request arrived.                                                     *)
NotLooking == [pc |-> "idle", answer |-> 0, valid |-> {}]

----------------------------------------------------------------------------
(* live_head: the live pointer, and only when there is none the baseline's. *)

LookBaselineFirst ==
    /\ look.pc = "idle"
    /\ look' = [pc |-> IF heads.baseline # 0 THEN "answered" ELSE "no_live",
                answer |-> heads.baseline, valid |-> {ActiveLive}]
    /\ UNCHANGED <<vars, feed>>

LookLive ==
    /\ look.pc = "idle"
    /\ look' = [pc |-> IF heads.live_working # 0 THEN "answered" ELSE "no_live",
                answer |-> heads.live_working, valid |-> {ActiveLive}]
    /\ UNCHANGED <<vars, feed>>

LookBaseline ==
    /\ look.pc = "no_live"
    /\ look' = [look EXCEPT !.pc = "answered", !.answer = heads.baseline]
    /\ UNCHANGED <<vars, feed>>

LookAnswer ==
    /\ look.pc = "answered"
    /\ look' = NotLooking
    /\ UNCHANGED <<vars, feed>>

(* The history variable follows the store.                                  *)
Remember == look' = IF look.pc = "idle" THEN look
                    ELSE [look EXCEPT !.valid = @ \union {ActiveLive'}]

----------------------------------------------------------------------------
(* execution_stream: a connection starts after the client's cursor, fetches *)
(* up to a page of later changes in order, and sends them one by one.       *)

ChangesAfterNext(cursor) ==
    LET after == {i \in DOMAIN operations : operations[i].sequence > cursor + 1}
    IN  [k \in 1..Cardinality(after) |-> operations[cursor + 1 + k]]

ChangesAfter(cursor) ==
    LET after == {i \in DOMAIN operations : operations[i].sequence > cursor}
    IN  [k \in 1..Min({PageSize, Cardinality(after)}) |->
            operations[CHOOSE i \in after :
                Cardinality({j \in after : operations[j].sequence
                                             <= operations[i].sequence}) = k]]

ReconnectFromStart == 0
LastReceived == IF feed.received = <<>> THEN 0
                ELSE feed.received[Len(feed.received)].sequence

FeedConnect ==
    /\ ~feed.open
    /\ feed' = [feed EXCEPT !.open = TRUE, !.at = LastReceived]
    /\ UNCHANGED <<vars, look>>

FeedFetch ==
    /\ feed.open /\ feed.batch = <<>>
    /\ ChangesAfter(feed.at) # <<>>
    /\ feed' = [feed EXCEPT !.batch = ChangesAfter(feed.at)]
    /\ UNCHANGED <<vars, look>>

FeedSend ==
    /\ feed.open /\ feed.batch # <<>>
    /\ feed' = [feed EXCEPT !.batch = Tail(@), !.at = feed.batch[1].sequence,
                            !.received = Append(@, feed.batch[1])]
    /\ UNCHANGED <<vars, look>>

(* The client goes away, its access ends, or the process restarts.          *)
FeedDrop ==
    /\ feed.open
    /\ feed' = [feed EXCEPT !.open = FALSE, !.batch = <<>>]
    /\ UNCHANGED <<vars, look>>

----------------------------------------------------------------------------
ReadersInit ==
    /\ Init
    /\ look = NotLooking
    /\ feed = [open |-> FALSE, at |-> 0, batch |-> <<>>, received |-> <<>>]

ReadersNext ==
    \/ Next /\ Remember /\ UNCHANGED feed
    \/ LookLive \/ LookBaseline \/ LookAnswer
    \/ FeedConnect \/ FeedFetch \/ FeedSend \/ FeedDrop

ReadersSpec == ReadersInit /\ [][ReadersNext]_<<vars, readers>>

(* The stream's loop and its client's reconnection keep running; a client   *)
(* that reconnects again and again gets its next change through.            *)
ReadersFairness ==
    /\ WF_<<vars, readers>>(FeedConnect)
    /\ SF_<<vars, readers>>(FeedFetch)
    /\ SF_<<vars, readers>>(FeedSend)
FairReadersSpec == ReadersSpec /\ ReadersFairness

----------------------------------------------------------------------------
(* The two statements of live_head are not one snapshot, yet the version it *)
(* answers was the live head at some moment while the request ran.          *)
LiveHeadWasLive == look.pc = "answered" => look.answer \in look.valid

(* Through page limits, reconnections and concurrent commits, a client of   *)
(* the stream holds exactly the first accepted operations, in order: no     *)
(* gap, no duplicate, nothing that was not committed.                       *)
StreamIsPrefix ==
    /\ Len(feed.received) <= Len(operations)
    /\ \A i \in DOMAIN feed.received : feed.received[i] = operations[i]

(* Every accepted operation reaches the client of the stream.               *)
StreamCatchesUp ==
    \A n \in 1..MaxVersions : Len(operations) >= n ~> Len(feed.received) >= n
=============================================================================
