------------------------------ MODULE NetSinks ------------------------------
(***************************************************************************)
(* The stream sinks of src/output: tcp, udp, unix (dgram and stream), fifo *)
(* and http, over the socket calls of platform/posix/posix_net.c, from     *)
(* hpu_output_create to hpu_output_close.                                  *)
(*                                                                         *)
(* One instance, chosen by kind.  Its caller is serial: the worker of its  *)
(* queue calls emit_batch (async), or the delivery path calls emit with    *)
(* one event (not async).  A call is a sequence of steps, one per record   *)
(* and one per POST, so that the peer may answer each differently.         *)
(*                                                                         *)
(* An event is its number in the order of delivery.  Sizes are counted in  *)
(* small units; time is what is left until retry_deadline_ns.              *)
(***************************************************************************)
EXTENDS Integers, Sequences, FiniteSets, SequencesExt

CONSTANTS Kinds,        \* sink types to consider
          MaxEvents,    \* bound on the events handed to the sink
          MaxBatch,     \* bound on the events of one emit_batch
          Need,         \* size of the frame of an event: the line and its end
          BufferSize,   \* HPU_*_COALESCE_SIZE, HPU_HTTP_BODY_SIZE
          Mtu,          \* the longest line udp sends whole
          MaxBackoff    \* largest value of either backoff key

Events == 1 .. MaxEvents
NoWindow == -1

ASSUME SizeAssumption ==
    /\ MaxEvents \in Nat /\ MaxBatch \in Nat \ {0}
    /\ Need \in [Events -> Nat \ {0}]
    /\ BufferSize \in Nat \ {0} /\ Mtu \in Nat /\ MaxBackoff \in Nat \ {0}

StreamKinds == {"tcp", "stream", "http"}
SocketKinds == StreamKinds \cup {"dgram", "udp"}

ASSUME KindAssumption == Kinds \subseteq SocketKinds \cup {"fifo"}

VARIABLES
    kind, async, ndjson,
    init, max,       \* backoff_init_s, backoff_max_s; 0 is unset
    life,            \* how far hpu_output_create and hpu_output_close are
    fd,              \* "zeroed" as calloc left it, "closed" or "open"
    connected,
    backoff, wait,   \* backoff_ns; time until retry_deadline_ns
    body,            \* records in buf
    pc, batch, at, done,   \* the call in progress
    handed, failed,        \* deliveries; st_failed
    stream,          \* history: what the peer was sent
    answered,        \* history: events of requests answered with 2xx
    window,          \* history: the wait armed when the last attempt to
                     \* connect failed; NoWindow after one that did not
    foreign          \* history: a descriptor of the host was closed

setup == <<kind, async, ndjson, init, max>>
gate == <<backoff, wait>>
call == <<batch, at, done>>
tally == <<handed, failed>>
history == <<stream, answered, window, foreign>>
vars == <<setup, life, fd, connected, gate, body, pc, call, tally, history>>

Whole(e) == [ev |-> e, part |-> "whole"]
Piece(e) == [ev |-> e, part |-> "piece"]
Opening == [ev |-> 0, part |-> "open"]

Frames(s) == [i \in 1 .. Len(s) |-> Whole(s[i])]

(* What a send that failed may have put on the stream. *)
Torn(s) ==
    {Frames(SubSeq(s, 1, k)) : k \in 0 .. Len(s) - 1}
        \cup {Append(Frames(SubSeq(s, 1, k - 1)), Piece(s[k])) : k \in 1 .. Len(s)}

(* tcp, unix stream: frames end to end; their bytes, each known by the     *)
(* place of its frame and its own place there, are counted.  http lines:   *)
(* the same.  ndjson: a slot for '[' and a comma between two elements.     *)
SumOf(s) == Cardinality(UNION {{i} \X (1 .. Need[s[i]]) : i \in DOMAIN s})
Brackets == IF ndjson THEN 1 ELSE 0
Commas(s) == IF ndjson /\ s # <<>> THEN Len(s) - 1 ELSE 0
body_len(s) == Brackets + SumOf(s) + Commas(s)
Comma(s) == IF ndjson /\ s # <<>> THEN 1 ELSE 0

(* Mutant: the closing bracket is forgotten. *)
WholeBuffer == BufferSize

(* ndjson keeps one byte for ']'. *)
budget == BufferSize - Brackets

Least(a, b) == IF a < b THEN a ELSE b
InitOf == IF init = 0 THEN 1 ELSE init
MaxOf == IF max = 0 THEN MaxBackoff ELSE max
Doubled(b) == Least(2 * b, MaxOf)

Init ==
    /\ kind \in Kinds
    /\ async \in BOOLEAN /\ ndjson \in BOOLEAN
    /\ ndjson => kind = "http"
    /\ init \in 0 .. MaxBackoff /\ max \in 0 .. MaxBackoff
    /\ life = "new"
    /\ fd = "zeroed" /\ connected = FALSE
    /\ backoff = 0 /\ wait = 0
    /\ body = <<>>
    /\ pc = "idle" /\ batch = <<>> /\ at = 1 /\ done = 0
    /\ handed = 0 /\ failed = 0
    /\ stream = <<>> /\ answered = {} /\ window = NoWindow /\ foreign = FALSE

-----------------------------------------------------------------------------
(* Descriptors *)

(* close of p->fd when it is not negative; the zero of calloc is not. *)
CloseFd ==
    /\ fd' = "closed"
    /\ foreign' = (foreign \/ fd = "zeroed")

(* socket and connect: a descriptor, or -1 with nothing left open.         *)
hpu_net_stream_open(ok) ==
    /\ fd' = IF ok THEN "open" ELSE "closed"
    /\ stream' = IF ok THEN Append(stream, Opening) ELSE stream

hpu_net_dgram_open(ok) == hpu_net_stream_open(ok)
hpu_net_unix_stream_open(ok) == hpu_net_stream_open(ok)
hpu_net_unix_dgram_open(ok) == hpu_net_stream_open(ok)

(* A descriptor whose timeouts cannot be set is closed again. *)
http_connect(ok) == hpu_net_stream_open(ok)

Open(ok) ==
    CASE kind = "tcp" -> hpu_net_stream_open(ok)
      [] kind = "udp" -> hpu_net_dgram_open(ok)
      [] kind = "stream" -> hpu_net_unix_stream_open(ok)
      [] kind = "dgram" -> hpu_net_unix_dgram_open(ok)
      [] kind = "http" -> http_connect(ok)

(* hpu_net_send loops over partial writes: all of it, or some of it and    *)
(* an error.  Without a descriptor nothing is sent.                        *)
hpu_net_send(s, ok) ==
    IF ok
    THEN fd = "open" /\ stream' = stream \o Frames(s)
    ELSE \E t \in IF fd = "open" THEN Torn(s) ELSE {<<>>} :
            stream' = stream \o t

(* One sendto or one send on a datagram socket: all or nothing. *)
hpu_net_send_dgram(e, ok) ==
    stream' = IF ok THEN Append(stream, Whole(e)) ELSE stream

-----------------------------------------------------------------------------
(* The backoff gate *)

Arm(b) == wait' = b /\ backoff' = Doubled(b)

(* Mutant: the window is not armed. *)
DropOnly ==
    CloseFd /\ connected' = FALSE /\ body' = <<>> /\ UNCHANGED gate

(* Mutant: the broken connection is kept. *)
KeepConnection ==
    /\ UNCHANGED <<fd, connected, foreign>> /\ body' = <<>>
    /\ Arm(IF backoff = 0 THEN InitOf ELSE backoff)

(* Mutant: the coalesced records survive the disconnect. *)
KeepBody ==
    /\ CloseFd /\ connected' = FALSE /\ UNCHANGED body
    /\ Arm(IF backoff = 0 THEN InitOf ELSE backoff)

(* A lost connection drops the coalesced records and arms the window. *)
tcp_mark_disconnected ==
    /\ CloseFd
    /\ connected' = FALSE
    /\ body' = <<>>
    /\ Arm(IF backoff = 0 THEN InitOf ELSE backoff)

unix_mark_disconnected == tcp_mark_disconnected
http_mark_disconnected == tcp_mark_disconnected

(* The same for a sink that keeps no records and no connected flag. *)
fifo_arm_backoff ==
    /\ CloseFd
    /\ Arm(IF backoff = 0 THEN InitOf ELSE backoff)
    /\ UNCHANGED <<connected, body>>

MarkDisconnected ==
    CASE kind = "tcp" -> tcp_mark_disconnected
      [] kind = "http" -> http_mark_disconnected
      [] kind = "fifo" -> fifo_arm_backoff
      [] OTHER -> unix_mark_disconnected

(* An attempt when the window is over: success resets the gate, failure    *)
(* arms it with the current value, whatever that is.                       *)
tcp_reconnect(ok) ==
    /\ wait = 0
    /\ Open(ok)
    /\ connected' = ok
    /\ IF ok THEN wait' = 0 /\ backoff' = InitOf ELSE Arm(backoff)
    /\ window' = IF ok THEN NoWindow ELSE wait'
    /\ UNCHANGED <<body, foreign>>

unix_reconnect(ok) == tcp_reconnect(ok)
http_reconnect(ok) == tcp_reconnect(ok)

(* The fifo arms the gate in every failing branch, a reader that is absent *)
(* and an endpoint that is gone or is no fifo alike.                       *)
fifo_open_write_end(ok) ==
    /\ IF ok THEN fd' = "open" /\ UNCHANGED <<connected, body, foreign>>
             ELSE fifo_arm_backoff
    /\ window' = IF ok THEN NoWindow ELSE wait'
    /\ stream' = IF ok THEN Append(stream, Opening) ELSE stream

fifo_try_reopen(ok) ==
    /\ wait = 0
    /\ fifo_open_write_end(ok)
    /\ ok => wait' = 0 /\ backoff' = InitOf

Reconnect(ok) ==
    CASE kind = "tcp" -> tcp_reconnect(ok)
      [] kind = "http" -> http_reconnect(ok)
      [] kind = "fifo" -> fifo_try_reopen(ok)
      [] OTHER -> unix_reconnect(ok)

Lost == IF kind = "fifo" THEN fd = "closed" ELSE kind # "udp" /\ ~connected

-----------------------------------------------------------------------------
(* hpu_output_create *)

(* A configure call refused a key: the instance is destroyed as it is.     *)
ConfigureFails ==
    /\ life = "new"
    /\ life' = "gone"
    /\ CloseFd
    /\ UNCHANGED <<setup, connected, gate, body, pc, call, tally, stream,
                   answered, window>>

(* init: unset keys get their defaults; http insists on a queue. *)
tcp_init == InitOf <= MaxOf
udp_init == TRUE
unix_init == tcp_init
fifo_init == tcp_init
http_init == async /\ tcp_init

InitRejects ==
    ~CASE kind = "tcp" -> tcp_init
       [] kind = "udp" -> udp_init
       [] kind = "fifo" -> fifo_init
       [] kind = "http" -> http_init
       [] OTHER -> unix_init

(* The instance is freed without destroy. *)
InitFails ==
    /\ life = "new"
    /\ InitRejects
    /\ life' = "gone"
    /\ UNCHANGED <<setup, fd, connected, gate, body, pc, call, tally, history>>

(* start fails.  When the host does not resolve, and whenever a fifo is    *)
(* refused, fd is still what calloc left, and destroy closes what it finds.*)
Unresolved ==
    IF kind = "fifo" THEN {TRUE} ELSE
    IF kind \in {"tcp", "udp", "http"} THEN BOOLEAN ELSE {FALSE}

StartFails ==
    /\ life = "new" /\ ~InitRejects
    /\ life' = "gone"
    /\ \E unresolved \in Unresolved :
          IF unresolved THEN CloseFd ELSE fd' = "closed" /\ UNCHANGED foreign
    /\ UNCHANGED <<setup, connected, gate, body, pc, call, tally, stream,
                   answered, window>>

tcp_start ==
    /\ Open(TRUE)
    /\ connected' = TRUE
    /\ UNCHANGED <<gate, body, window, foreign>>

udp_start ==
    Open(TRUE) /\ UNCHANGED <<connected, gate, body, window, foreign>>

unix_start == tcp_start
http_start == tcp_start

(* A fifo without a reader starts in the waiting state. *)
fifo_start ==
    \E ok \in BOOLEAN : fifo_open_write_end(ok) /\ (ok => UNCHANGED gate)

Start ==
    /\ life = "new" /\ ~InitRejects
    /\ life' = "running"
    /\ CASE kind = "tcp" -> tcp_start
         [] kind = "udp" -> udp_start
         [] kind = "http" -> http_start
         [] kind = "fifo" -> fifo_start
         [] OTHER -> unix_start
    /\ UNCHANGED <<setup, pc, call, tally, answered>>

-----------------------------------------------------------------------------
(* A call of the delivery path or of the worker *)

(* emit accounts for its own event, and after emit_batch the worker for    *)
(* those not done; a call that returns -1 has none done.                   *)
Idle == pc' = "idle" /\ batch' = <<>> /\ at' = 1 /\ done' = 0

Return(d) ==
    /\ Idle
    /\ failed' = failed + (Len(batch) - d)

Next_record == pc' = "loop" /\ at' = at + 1 /\ UNCHANGED batch

Call ==
    /\ life = "running" /\ pc = "idle"
    /\ \E n \in 1 .. IF async THEN MaxBatch ELSE 1 :
          /\ handed + n <= MaxEvents
          /\ handed' = handed + n
          /\ batch' = [i \in 1 .. n |-> handed + i]
    /\ pc' = "begin"
    /\ UNCHANGED <<setup, life, fd, connected, gate, body, at, done, failed,
                   history>>

(* Inside the window, or when the attempt fails, the whole call fails. *)
Begin ==
    /\ pc = "begin"
    /\ \/ ~Lost /\ pc' = "loop" /\ UNCHANGED <<fd, connected, gate, body, stream,
                                               window, foreign, call, failed>>
       \/ Lost /\ Reconnect(TRUE) /\ pc' = "loop" /\ UNCHANGED <<call, failed>>
       \/ Lost /\ Reconnect(FALSE) /\ Return(0)
       \/ /\ Lost /\ wait > 0
          /\ Return(0)
          /\ UNCHANGED <<fd, connected, gate, body, stream, window, foreign>>
    /\ UNCHANGED <<setup, life, handed, answered>>

More == pc = "loop" /\ at <= Len(batch)
ev == batch[at]

(* A connection that broke ends the call; what was coalesced is not done.  *)
Broken(d) == MarkDisconnected /\ Return(d)

-----------------------------------------------------------------------------
(* udp: one datagram per record, cut at the mtu.  A cut one is sent and    *)
(* counted failed.                                                         *)
Fits == Need[ev] <= Mtu

udp_send_one(ok) ==
    /\ stream' = IF ok THEN Append(stream, IF Fits THEN Whole(ev) ELSE Piece(ev))
                        ELSE stream
    /\ done' = IF ok /\ Fits THEN done + 1 ELSE done

udp_emit_batch ==
    /\ More /\ kind = "udp"
    /\ \E ok \in BOOLEAN : udp_send_one(ok)
    /\ Next_record
    /\ UNCHANGED <<setup, life, fd, connected, gate, body, tally, answered,
                   window, foreign>>

-----------------------------------------------------------------------------
(* fifo: line and newline in one write.  A full pipe keeps the write end   *)
(* open and may have taken a part of a long record.                        *)
fifo_write_record(rc) == hpu_net_send(<<ev>>, rc = "written")

(* fifo_deliver counts a record it did not deliver; when the record is one *)
(* of a batch the worker counts it again.                                  *)
CountedTwice == IF async THEN 1 ELSE 0

fifo_deliver(rc) ==
    /\ fifo_write_record(rc)
    /\ \/ /\ rc = "written"
          /\ done' = done + 1
          /\ Next_record
          /\ UNCHANGED <<fd, connected, gate, body, failed, foreign>>
       \/ /\ rc = "full"
          /\ failed' = failed + CountedTwice
          /\ Next_record
          /\ UNCHANGED <<done, fd, connected, gate, body, foreign>>
       \/ /\ rc = "gone"
          /\ fifo_arm_backoff
          /\ Idle
          /\ failed' = failed + CountedTwice + (Len(batch) - done)

fifo_emit_batch ==
    /\ More /\ kind = "fifo"
    /\ \E rc \in {"written", "full", "gone"} : fifo_deliver(rc)
    /\ UNCHANGED <<setup, life, handed, answered, window>>

-----------------------------------------------------------------------------
(* tcp and unix stream *)

(* One event by itself: the line and its newline are two sends. *)
SendFrame ==
    /\ \/ /\ hpu_net_send(<<ev>>, TRUE)
          /\ done' = done + 1
          /\ Next_record
          /\ UNCHANGED <<fd, connected, gate, body, failed, foreign>>
       \/ hpu_net_send(<<ev>>, FALSE) /\ Broken(done)
    /\ UNCHANGED <<setup, life, handed, answered, window>>

(* Mutant: the lost frames stay in done. *)
LostStayDone ==
    \/ /\ hpu_net_send(body, TRUE)
       /\ body' = <<>>
       /\ UNCHANGED <<fd, connected, gate, call, pc, failed, foreign>>
    \/ hpu_net_send(body, FALSE) /\ Broken(done)

(* The pending frames are written.  On failure they are taken out of done, *)
(* even those the peer did get.                                            *)
tcp_flush_pending ==
    \/ /\ hpu_net_send(body, TRUE)
       /\ body' = <<>>
       /\ UNCHANGED <<fd, connected, gate, call, pc, failed, foreign>>
    \/ hpu_net_send(body, FALSE) /\ Broken(done - Len(body))

unix_flush_pending == tcp_flush_pending

(* When the next record does not fit behind them, or there is none. *)
FlushPending ==
    /\ pc = "loop" /\ body # <<>>
    /\ at <= Len(batch) => SumOf(body) + Need[ev] > BufferSize
    /\ IF kind = "tcp" THEN tcp_flush_pending ELSE unix_flush_pending
    /\ UNCHANGED <<setup, life, handed, answered, window>>

Coalesce ==
    /\ More
    /\ SumOf(body) + Need[ev] <= BufferSize
    /\ body' = Append(body, ev)
    /\ done' = done + 1
    /\ Next_record
    /\ UNCHANGED <<setup, life, fd, connected, gate, tally, history>>

(* A line longer than the buffer goes out by itself. *)
SendOversized == More /\ Need[ev] > BufferSize /\ body = <<>> /\ SendFrame

tcp_emit == kind = "tcp" /\ ~async /\ More /\ SendFrame

tcp_emit_batch ==
    /\ kind = "tcp" /\ async
    /\ FlushPending \/ Coalesce \/ SendOversized

-----------------------------------------------------------------------------
(* unix: a stream like tcp, or a datagram per record.  A full peer queue   *)
(* fails the record, any other error the connection.                       *)
unix_send_dgram ==
    /\ More /\ kind = "dgram"
    /\ \/ \E ok \in BOOLEAN :
             /\ hpu_net_send_dgram(ev, ok)
             /\ done' = IF ok THEN done + 1 ELSE done
             /\ Next_record
             /\ UNCHANGED <<fd, connected, gate, body, failed, foreign>>
       \/ hpu_net_send_dgram(ev, FALSE) /\ Broken(done)
    /\ UNCHANGED <<setup, life, handed, answered, window>>

unix_emit ==
    ~async /\ (unix_send_dgram \/ (kind = "stream" /\ More /\ SendFrame))

unix_emit_batch ==
    /\ async
    /\ \/ unix_send_dgram
       \/ kind = "stream" /\ (FlushPending \/ Coalesce \/ SendOversized)

-----------------------------------------------------------------------------
(* http *)

(* A planned end of the connection: no backoff is armed, and the gate is   *)
(* reset.                                                                  *)
http_conn_close ==
    /\ CloseFd
    /\ connected' = FALSE
    /\ backoff' = 0 /\ wait' = 0
    /\ body' = <<>>

(* Outcomes of http_read_response: a 2xx whose body was drained; a 2xx on a*)
(* connection that cannot be reused (closing, or no known end of the body);*)
(* a 2xx whose body did not arrive; another status; no status line at all. *)
http_read_response == {"reusable", "unusable", "undrained", "status", "dead"}

Answered2xx(r) == r \in {"reusable", "unusable", "undrained"}

http_flush_post ==
    \/ /\ hpu_net_send(body, FALSE)
       /\ Broken(done - Len(body))
       /\ UNCHANGED answered
    \/ \E r \in http_read_response :
          /\ hpu_net_send(body, TRUE)
          /\ answered' = IF Answered2xx(r) THEN answered \cup ToSet(body)
                                           ELSE answered
          /\ CASE r = "reusable" ->
                    /\ body' = <<>>
                    /\ UNCHANGED <<fd, connected, gate, call, pc, failed, foreign>>
               [] r = "unusable" ->
                    http_conn_close /\ UNCHANGED <<call, pc, failed>>
               [] OTHER -> Broken(done - Len(body))

http_json_element_len(e) == Need[e] + Comma(body)

(* A lone element needs the brackets besides its own bytes. *)
Oversized(e) ==
    IF ndjson THEN 2 + http_json_element_len(e) + 1 > budget
              ELSE Need[e] > budget

NoRoom(e) == body_len(body) + http_json_element_len(e) > budget

PostBatch ==
    /\ kind = "http" /\ pc = "loop" /\ body # <<>>
    /\ at <= Len(batch) => ~Oversized(ev) /\ NoRoom(ev)
    /\ http_flush_post
    /\ UNCHANGED <<setup, life, handed, window>>

http_emit_batch ==
    /\ kind = "http" /\ More
    /\ ~Oversized(ev) /\ ~NoRoom(ev)
    /\ body' = Append(body, ev)
    /\ done' = done + 1
    /\ Next_record
    /\ UNCHANGED <<setup, life, fd, connected, gate, tally, history>>

(* Too large for any request: left out, hence failed. *)
SkipOversized ==
    /\ kind = "http" /\ More
    /\ Oversized(ev)
    /\ Next_record
    /\ UNCHANGED <<setup, life, fd, connected, gate, body, done, tally, history>>

-----------------------------------------------------------------------------
Finish ==
    /\ pc = "loop" /\ at > Len(batch) /\ body = <<>>
    /\ Return(done)
    /\ UNCHANGED <<setup, life, fd, connected, gate, body, handed, history>>

Tick ==
    /\ pc = "idle" /\ wait > 0
    /\ wait' = wait - 1
    /\ UNCHANGED <<setup, life, fd, connected, backoff, body, pc, call, tally,
                   history>>

(* hpu_output_close: none of these sinks has a flush. *)
Destroy ==
    /\ life = "running" /\ pc = "idle"
    /\ life' = "gone"
    /\ CloseFd
    /\ connected' = FALSE
    /\ UNCHANGED <<setup, gate, body, pc, call, tally, stream, answered, window>>

Next ==
    \/ ConfigureFails \/ InitFails \/ StartFails \/ Start
    \/ Call \/ Begin
    \/ udp_emit_batch \/ fifo_emit_batch
    \/ tcp_emit \/ tcp_emit_batch \/ unix_emit \/ unix_emit_batch
    \/ PostBatch \/ http_emit_batch \/ SkipOversized
    \/ Finish \/ Tick \/ Destroy

Spec == Init /\ [][Next]_vars

-----------------------------------------------------------------------------
TypeOK ==
    /\ kind \in Kinds /\ async \in BOOLEAN /\ ndjson \in BOOLEAN
    /\ init \in 0 .. MaxBackoff /\ max \in 0 .. MaxBackoff
    /\ life \in {"new", "running", "gone"}
    /\ fd \in {"zeroed", "closed", "open"} /\ connected \in BOOLEAN
    /\ backoff \in 0 .. MaxBackoff /\ wait \in 0 .. MaxBackoff
    /\ body \in Seq(Events) /\ batch \in Seq(Events)
    /\ pc \in {"idle", "begin", "loop"}
    /\ at \in 1 .. MaxBatch + 1 /\ done \in 0 .. MaxBatch
    /\ handed \in 0 .. MaxEvents /\ failed \in Nat
    /\ answered \subseteq Events /\ window \in -1 .. MaxBackoff
    /\ foreign \in BOOLEAN

(* At most once, and in order: whatever breaks in whichever send, and      *)
(* however often the sink reconnects, no event and no part of one reaches  *)
(* the peer twice or after a later one.                                    *)
AtMostOnceInOrder ==
    \A i, j \in DOMAIN stream :
        i < j /\ stream[i].ev # 0 /\ stream[j].ev # 0 =>
            stream[i].ev < stream[j].ev

(* On a stream socket a frame that was cut is the last thing on its        *)
(* connection: the newline of a record never ends another one's torn       *)
(* frame.                                                                  *)
CutFrameEndsConnection ==
    kind \in StreamKinds =>
        \A i \in DOMAIN stream :
            stream[i].part = "piece" =>
                IF i = Len(stream) THEN fd # "open"
                                   ELSE stream[i + 1].part = "open"

(* What the statistics call neither dropped nor failed did leave: a record *)
(* that was coalesced, queued or half sent when the connection broke is    *)
(* counted failed before the call returns.  For http leaving means that    *)
(* the request was answered with 2xx.                                      *)
Arrived ==
    IF kind = "http" THEN answered
    ELSE {stream[i].ev : i \in {j \in DOMAIN stream : stream[j].part = "whole"}}

NeverOverclaimed ==
    pc = "idle" => handed - failed <= Cardinality(Arrived)

(* The body of a request with its brackets fits the buffer it is built in, *)
(* also when a record is appended after a POST in the middle of a batch.   *)
BodyFits ==
    body # <<>> =>
        IF kind = "http" THEN body_len(body) + Brackets <= BufferSize
                         ELSE SumOf(body) <= BufferSize

(* A failed attempt to connect leaves a window of at least the initial     *)
(* backoff and within the maximum, and the next one is no shorter          *)
(* (rd_v0.6.md 4.10.8).  True of every sink but http.                      *)
BacksOff ==
    window # NoWindow => InitOf <= window /\ window <= MaxOf /\ window <= backoff

SocketsBackOff == life = "running" /\ kind # "http" => BacksOff

(* rd_v0.6.md:727-729 says it of http too: reconnecting backs off          *)
(* exponentially from reconnect backoff, exactly as tcp does.              *)
HttpBacksOff == life = "running" => BacksOff

(* sink_fifo.c:57: fd is the write end, -1 when closed.  The sink closes   *)
(* only descriptors it opened.                                             *)
ClosesOnlyItsOwn == ~foreign
=============================================================================
