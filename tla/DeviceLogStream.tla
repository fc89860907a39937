--------------------------- MODULE DeviceLogStream ---------------------------
(***************************************************************************)
(* pw_system/device.py: Device opens the device's Logs.Listen server       *)
(* stream as soon as it is built, turns each LogEntries response into      *)
(* Python log records, and opens the stream again when it ends with an     *)
(* error; a stream that completes is only logged.                          *)
(*                                                                         *)
(* The device (the RPC server) and pw_rpc are not in this repository: the *)
(* device is the environment, which streams entries, ends the call with an *)
(* error or completes it, and serves a new Listen request.  Packets travel *)
(* in order over HDLC in both directions.  A LogEntry is abstracted to its *)
(* line_level field, (line << 3) | level, the only field whose value the   *)
(* client computes with.                                                   *)
(***************************************************************************)
EXTENDS Integers, Sequences, FiniteSets

CONSTANTS
    LineNumbers,    \* source line numbers a device log carries
    MaxSent,        \* bound on the entries the device streams
    MaxEnds         \* bound on the times the device ends the call

\* pw_log's level numbers (pw_log/levels.h) and the Python logging levels
\* of the same names; FATAL has no Python name and is above CRITICAL.
PwLogLevel == [DEBUG |-> 1, INFO |-> 2, WARN |-> 3, ERROR |-> 4,
               CRITICAL |-> 5, FATAL |-> 7]
PythonLevel == [DEBUG |-> 10, INFO |-> 20, WARN |-> 30, ERROR |-> 40,
                CRITICAL |-> 50]
\* self.logger.setLevel(logging.DEBUG)
LoggerLevel == 10

\* LogEntry.line_level: the level in the low 3 bits, the line above them.
Entries == {[line |-> n, level |-> l] : n \in LineNumbers, l \in 0..7}
LineLevel(e) == e.line * 8 + e.level

VARIABLES
    toClient,       \* packets from the device: "next" (with an entry),
                    \* "error" or "completed"
    requests,       \* Listen requests in flight to the device
    serverCall,     \* the device's Listen call: "open" | "closed"
    clientCall,     \* the client's pending Listen call: "open" | "none"
    sent, ends,     \* history: entries streamed, calls ended by the device
    parsed,         \* history: entries _log_entries_proto_parser handled
    records         \* (entry, Python level) pairs the device logger emitted

vars == <<toClient, requests, serverCall, clientCall, sent, ends, parsed,
          records>>

\* self.rpcs.pw.log.Logs.Listen.open(...): a request goes to the device and
\* the client has a pending call whose callbacks are the handlers below.
listen_to_log_stream ==
    /\ requests' = requests + 1
    /\ clientCall' = "open"

\* _emit_device_log: logger.log(level * 10, ...); the logger drops a
\* record below its level.
emit_device_log(e, level) ==
    records' = IF level * 10 >= LoggerLevel
                  THEN records \cup {<<e, level * 10>>} ELSE records

\* Mutant: the level taken without masking off the line number.
log_entries_proto_parser_unmasked(e) ==
    /\ parsed' = parsed \cup {e}
    /\ emit_device_log(e, LineLevel(e))

\* _log_entries_proto_parser: level = line_level & 0x7 for each entry.
log_entries_proto_parser(e) ==
    /\ parsed' = parsed \cup {e}
    /\ emit_device_log(e, LineLevel(e) % 8)

-----------------------------------------------------------------------------

\* Mutant: the stream is opened twice at construction (a subclass that
\* calls listen_to_log_stream() again in its own __init__).
Init_listen_twice ==
    /\ toClient = <<>>
    /\ serverCall = "closed"
    /\ sent = 0 /\ ends = 0
    /\ parsed = {} /\ records = {}
    /\ requests = 2 /\ clientCall = "open"

\* Device.__init__ ends with listen_to_log_stream().
Init ==
    /\ toClient = <<>>
    /\ serverCall = "closed"
    /\ sent = 0 /\ ends = 0
    /\ parsed = {} /\ records = {}
    /\ requests = 1 /\ clientCall = "open"

\* The device serves a Listen request: its stream is open again.
ServerOpen ==
    /\ requests > 0
    /\ requests' = requests - 1 /\ serverCall' = "open"
    /\ UNCHANGED <<toClient, clientCall, sent, ends, parsed, records>>

\* The device streams a log entry on the open call.
ServerSend(e) ==
    /\ serverCall = "open" /\ sent < MaxSent
    /\ toClient' = Append(toClient, [type |-> "next", entry |-> e])
    /\ sent' = sent + 1
    /\ UNCHANGED <<requests, serverCall, clientCall, ends, parsed, records>>

\* The device ends the call with an error status or completes it.
ServerEnd(type) ==
    /\ serverCall = "open" /\ ends < MaxEnds
    /\ toClient' = Append(toClient, [type |-> type])
    /\ serverCall' = "closed" /\ ends' = ends + 1
    /\ UNCHANGED <<requests, clientCall, sent, parsed, records>>

\* Mutant: on_error logs the error and does not open the stream again.
handle_log_stream_error_no_reopen ==
    /\ clientCall' = "none"
    /\ UNCHANGED <<requests, parsed, records>>

\* _handle_log_stream_error: log the error, then listen_to_log_stream().
handle_log_stream_error ==
    /\ listen_to_log_stream
    /\ UNCHANGED <<parsed, records>>

\* The RPC client thread handles the next packet from the device with the
\* pending call's callback; a packet for no pending call is dropped.
Receive ==
    /\ toClient # <<>>
    /\ toClient' = Tail(toClient)
    /\ LET p == Head(toClient) IN
       IF clientCall = "none" THEN UNCHANGED <<requests, clientCall, parsed,
                                               records>>
       ELSE CASE p.type = "next" ->
                     /\ log_entries_proto_parser(p.entry)
                     /\ UNCHANGED <<requests, clientCall>>
              [] p.type = "error" -> handle_log_stream_error
              [] p.type = "completed" ->
                     \* on_completed only logs the status; the call is over.
                     /\ clientCall' = "none"
                     /\ UNCHANGED <<requests, parsed, records>>
    /\ UNCHANGED <<serverCall, sent, ends>>

Device == ServerOpen \/ (\E e \in Entries : ServerSend(e))
              \/ (\E t \in {"error", "completed"} : ServerEnd(t))

Next == Device \/ Receive

\* The client's RPC thread keeps reading packets, and the device's RPC
\* server keeps serving requests; when the device streams or ends a call
\* is up to it.
Spec == Init /\ [][Next]_vars /\ WF_vars(Receive) /\ WF_vars(ServerOpen)

-----------------------------------------------------------------------------

\* The types; at most one Listen request is in flight, so the device never
\* has two streams to the same client.
TypeOK ==
    /\ toClient \in Seq([type : {"next"}, entry : Entries]
                        \cup [type : {"error", "completed"}])
    /\ requests \in 0..1
    /\ serverCall \in {"open", "closed"} /\ clientCall \in {"open", "none"}
    /\ parsed \subseteq Entries
    /\ records \subseteq Entries \X Nat

\* Every entry the client parsed with a pw_log level reaches the device
\* logger at the Python level of the same name (FATAL above CRITICAL),
\* whatever line number shares its line_level field
\* (_log_entries_proto_parser, _emit_device_log).
LevelPreserved ==
    \A e \in parsed :
        \A name \in DOMAIN PwLogLevel :
            e.level = PwLogLevel[name] =>
                \E r \in records :
                    /\ r[1] = e
                    /\ IF name \in DOMAIN PythonLevel
                          THEN r[2] = PythonLevel[name]
                          ELSE r[2] > PythonLevel.CRITICAL

\* A stream the device ends with an error is open again later, so the
\* device's logs keep reaching the console (_handle_log_stream_error:
\* "Resets the log stream RPC on error to avoid losing logs").
ErrorReopens ==
    (\E i \in DOMAIN toClient : toClient[i].type = "error")
        ~> serverCall = "open"

=============================================================================
