---------------------------- MODULE PriceStream ----------------------------
(***************************************************************************)
(* An exchange connection of the price reporter: create_receiver, the      *)
(* tasks it spawns and the ring channel they report into.  The repository  *)
(* has the connection twice, in core/src/price_reporter/exchange and in    *)
(* external-events/src/exchanges; which of the two runs is fixed in the    *)
(* initial state, as is the exchange asked for.  The exchange (what it     *)
(* sends, when it hangs up) and the price reporter that holds the receiver *)
(* are the environment.                                                    *)
(***************************************************************************)
EXTENDS Naturals, Sequences, FiniteSets

CONSTANTS
    Crates,         \* the implementations: "core", "external_events"
    Exchanges,      \* the exchanges create_receiver is called for
    Capacity,       \* the capacity of the ring channel
    MaxReports      \* the exchange streams at most this many prices

ASSUME
    /\ Crates \subseteq {"core", "external_events"}
    /\ Exchanges \subseteq {"Binance", "Coinbase", "Kraken", "Okx", "UniswapV3"}
    /\ Capacity \in Nat \ {0}
    /\ MaxReports \in Nat

VARIABLES
    crate,          \* the implementation that runs
    exchange,       \* the argument of create_receiver
    pc,             \* where create_receiver stands
    result,         \* what create_receiver returned
    task,           \* the state of every task create_receiver may spawn
    worker_handles, \* the tasks whose JoinHandle is in worker_handles
    channel,        \* the reports in the ring channel, oldest first
    receiver,       \* who has price_report_receiver
    socket,         \* the websocket to the exchange
    streamed,       \* environment: the prices the exchange has streamed
    latest_sent     \* history: the report sent to the channel last

vars == <<crate, exchange, pc, result, task, worker_handles, channel, receiver,
          socket, streamed, latest_sent>>

-----------------------------------------------------------------------------
(* Reports, messages and the ring channel                                  *)

\* The pre-stream report is fetched before the stream starts: it is report
\* 0, and the n-th price of the stream is report n.
PreStreamReport == 0
Report == 0..MaxReports

\* What a websocket message is to the code that reads it: a price update,
\* JSON the handler ignores, JSON the handler rejects, one of the texts the
\* exchanges send outside their protocol ("pong", "", "Protocol violation",
\* "CloudFlare WebSocket proxy restarting"), text that is not JSON, a ping,
\* pong or close frame with an empty payload, a binary frame that is not
\* UTF-8.
Message == {"price", "json_ignored", "json_rejected", "control", "not_json",
            "empty_frame", "not_utf8"}

TaskName == {"pre_stream", "reader", "keepalive", "delegate"}
Ended == {"ok", "err", "panic"}

UnboundedSend(ch, r) == Append(ch, r)

\* ring_channel(1): a send never blocks; into a full ring it drops the
\* oldest report.
RingSend(ch, r) == IF Len(ch) < Capacity THEN Append(ch, r) ELSE Append(Tail(ch), r)

\* RingSender::send: an error when every receiver is gone.
Send(r) ==
    /\ receiver # "dropped"
    /\ channel' = RingSend(channel, r)
    /\ latest_sent' = r

\* The tasks that hold a RingSender.
Senders == {t \in {"pre_stream", "reader", "delegate"} : task[t] = "running"}

\* Message::into_text: the text of a text frame, the payload of any other
\* frame if it is UTF-8.
IntoText(m) ==
    CASE m = "not_utf8" -> "error"
      [] m = "empty_frame" -> "control"
      [] OTHER -> m

\* CentralizedExchangeHandler::handle_exchange_message on a JSON value.
HandlerOutcome(m) ==
    CASE m = "price" -> "send"
      [] m = "json_ignored" -> "continue"
      [] m = "json_rejected" -> "err"

\* parse_json_from_message: frames that are not text and the texts outside
\* the protocol are skipped, other text must be JSON.
ParseJsonFromMessage(m) ==
    CASE m \in {"empty_frame", "not_utf8", "control"} -> "none"
      [] m = "not_json" -> "err"
      [] OTHER -> "json"

\* core: handle_exchange_message up to the report it sends.
CoreHandleExchangeMessage(m) ==
    CASE IntoText(m) = "error" -> "panic"
      [] IntoText(m) = "control" -> "continue"
      [] IntoText(m) = "not_json" -> "err"
      [] OTHER -> HandlerOutcome(IntoText(m))

\* external-events: both conversions are unwrapped.
ExtHandleExchangeMessage(m) ==
    CASE IntoText(m) \in {"error", "control", "not_json"} -> "panic"
      [] OTHER -> HandlerOutcome(IntoText(m))

\* The helper and the handler of core agree on every text frame; they part
\* on the frames that are not text, which the helper skips unread.
ASSUME
    \A m \in Message \ {"empty_frame", "not_utf8"} :
        CoreHandleExchangeMessage(m) =
            CASE ParseJsonFromMessage(m) = "none" -> "continue"
              [] ParseJsonFromMessage(m) = "err" -> "err"
              [] OTHER -> HandlerOutcome(m)

-----------------------------------------------------------------------------
(* create_receiver                                                         *)

\* create_receiver returns or panics: its locals are dropped, the receiver
\* and the socket among them unless they were moved into the result or a
\* task.
Return(res, handles) ==
    /\ pc' = "returned"
    /\ result' = res
    /\ worker_handles' = handles
    /\ receiver' = IF res = "ok" THEN "caller" ELSE "dropped"

\* UniswapV3Handler::start_price_stream takes the sender and returns its
\* own handles, or fails.
StartPriceStream ==
    \/ /\ Return("ok", {"delegate"})
       /\ task' = [task EXCEPT !["delegate"] = "running"]
    \/ /\ Return("err", {})
       /\ UNCHANGED task

Dispatch ==
    /\ pc = "dispatch"
    /\ \/ exchange = "UniswapV3" /\ StartPriceStream
       \/ /\ exchange # "UniswapV3"
          /\ pc' = "pre_stream"
          /\ UNCHANGED <<result, task, worker_handles, receiver>>
    /\ UNCHANGED <<crate, exchange, channel, socket, streamed, latest_sent>>

CoreDispatch == crate = "core" /\ Dispatch

ExtDispatch == crate = "external_events" /\ Dispatch

\* The handler's pre_stream_price_report fails, has no report, or has one,
\* which a task of its own sends after five seconds; pushed are the handles
\* that go to worker_handles.
PreStream(pushed) ==
    /\ pc = "pre_stream"
    /\ \/ /\ Return("err", {})
          /\ UNCHANGED task
       \/ /\ pc' = "connect"
          /\ UNCHANGED <<result, task, worker_handles, receiver>>
       \/ /\ pc' = "connect"
          /\ task' = [task EXCEPT !["pre_stream"] = "running"]
          /\ worker_handles' = worker_handles \cup pushed
          /\ UNCHANGED <<result, receiver>>
    /\ UNCHANGED <<crate, exchange, channel, socket, streamed, latest_sent>>

\* core: only Okx has a handler, the other arms panic; the handle of the
\* spawned task is dropped.
CorePreStream ==
    /\ crate = "core"
    /\ \/ exchange = "Okx" /\ PreStream({})
       \/ /\ exchange # "Okx"
          /\ pc = "pre_stream"
          /\ Return("panic", {})
          /\ UNCHANGED <<crate, exchange, task, channel, socket, streamed, latest_sent>>

\* external-events: every exchange has a handler; the handle is kept.
ExtPreStream == crate = "external_events" /\ PreStream({"pre_stream"})

\* The websocket connects, or create_receiver returns HandshakeFailure.
Connect ==
    /\ pc = "connect"
    /\ \/ /\ pc' = "subscribe"
          /\ socket' = "open"
          /\ UNCHANGED <<result, worker_handles, receiver>>
       \/ /\ Return("err", {})
          /\ UNCHANGED socket
    /\ UNCHANGED <<crate, exchange, task, channel, streamed, latest_sent>>

CoreConnect == crate = "core" /\ Connect

ExtConnect == crate = "external_events" /\ Connect

\* The subscription is sent, the tasks are spawned and their handles
\* pushed, or the send fails and the socket is dropped with the other
\* locals.
Subscribe(spawned, pushed) ==
    /\ pc = "subscribe"
    /\ \/ /\ socket = "open"
          /\ Return("ok", worker_handles \cup pushed)
          /\ task' = [t \in TaskName |-> IF t \in spawned THEN "running" ELSE task[t]]
          /\ UNCHANGED socket
       \/ /\ Return("err", {})
          /\ socket' = "closed"
          /\ UNCHANGED task
    /\ UNCHANGED <<crate, exchange, channel, streamed, latest_sent>>

CoreSubscribeDroppingReader ==
    crate = "core" /\ Subscribe({"reader", "keepalive"}, {"keepalive"})

\* core: the reader and the keepalive task.
CoreSubscribe ==
    crate = "core" /\ Subscribe({"reader", "keepalive"}, {"reader", "keepalive"})

\* external-events: the reader.
ExtSubscribe == crate = "external_events" /\ Subscribe({"reader"}, {"reader"})

-----------------------------------------------------------------------------
(* The spawned tasks                                                       *)

End(t, how) == task' = [task EXCEPT ![t] = how]

\* After its sleep the task sends the pre-stream report; a send without a
\* receiver is ConnectionHangup.
PreStreamSend ==
    /\ task["pre_stream"] = "running"
    /\ \/ Send(PreStreamReport) /\ End("pre_stream", "ok")
       \/ /\ receiver = "dropped"
          /\ End("pre_stream", "err")
          /\ UNCHANGED <<channel, latest_sent>>
    /\ UNCHANGED <<crate, exchange, pc, result, worker_handles, receiver, socket, streamed>>

CorePreStreamSend == crate = "core" /\ PreStreamSend

ExtPreStreamSend == crate = "external_events" /\ PreStreamSend

\* One turn of the reader's loop on a message of the exchange: a price is
\* stamped and sent, and the send is unwrapped.
ReaderHandlesMessage(m, outcome) ==
    /\ task["reader"] = "running"
    /\ socket = "open"
    /\ m = "price" => streamed < MaxReports
    /\ streamed' = IF m = "price" THEN streamed + 1 ELSE streamed
    /\ \/ /\ outcome = "send"
          /\ \/ Send(streamed') /\ UNCHANGED task
             \/ /\ receiver = "dropped"
                /\ End("reader", "panic")
                /\ UNCHANGED <<channel, latest_sent>>
       \/ /\ outcome = "continue"
          /\ UNCHANGED <<task, channel, latest_sent>>
       \/ /\ outcome \in {"err", "panic"}
          /\ End("reader", outcome)
          /\ UNCHANGED <<channel, latest_sent>>
    /\ UNCHANGED <<crate, exchange, pc, result, worker_handles, receiver, socket>>

\* One turn of the reader's loop on a socket that has hung up.
ReaderSeesHangup(outcomes) ==
    /\ task["reader"] = "running"
    /\ socket = "closed"
    /\ \E how \in outcomes : End("reader", how)
    /\ UNCHANGED <<crate, exchange, pc, result, worker_handles, channel, receiver,
                   socket, streamed, latest_sent>>

CoreReader ==
    /\ crate = "core"
    /\ \/ \E m \in Message : ReaderHandlesMessage(m, CoreHandleExchangeMessage(m))
       \* next() is an error, or None, which is unwrapped
       \/ ReaderSeesHangup({"err", "panic"})

ExtReader ==
    /\ crate = "external_events"
    /\ \/ \E m \in Message : ReaderHandlesMessage(m, ExtHandleExchangeMessage(m))
       \/ ReaderSeesHangup({"err"})

PingIgnoringErrors(state) == "running"

\* socket_sink.send(ping).await.unwrap()
Ping(state) == IF state = "open" THEN "running" ELSE "panic"

\* core: every fifteen seconds a ping.
CoreKeepalive ==
    /\ crate = "core"
    /\ task["keepalive"] = "running"
    /\ End("keepalive", Ping(socket))
    /\ UNCHANGED crate
    /\ UNCHANGED <<exchange, pc, result, worker_handles, channel, receiver,
                   socket, streamed, latest_sent>>

\* The UniswapV3 stream reports a price or ends with an error.
DelegateStep ==
    /\ task["delegate"] = "running"
    /\ \/ /\ streamed < MaxReports
          /\ streamed' = streamed + 1
          /\ Send(streamed')
          /\ UNCHANGED task
       \/ /\ End("delegate", "err")
          /\ UNCHANGED <<channel, streamed, latest_sent>>
    /\ UNCHANGED <<crate, exchange, pc, result, worker_handles, receiver, socket>>

-----------------------------------------------------------------------------
(* The environment                                                         *)

\* The price reporter takes the report out of the ring.
Recv ==
    /\ receiver = "caller"
    /\ channel # <<>>
    /\ channel' = Tail(channel)
    /\ UNCHANGED <<crate, exchange, pc, result, task, worker_handles, receiver,
                   socket, streamed, latest_sent>>

\* The price reporter gives the connection up.
DropReceiver ==
    /\ receiver = "caller"
    /\ receiver' = "dropped"
    /\ UNCHANGED <<crate, exchange, pc, result, task, worker_handles, channel,
                   socket, streamed, latest_sent>>

\* The exchange, or the network, closes the websocket.
Hangup ==
    /\ socket = "open"
    /\ socket' = "closed"
    /\ UNCHANGED <<crate, exchange, pc, result, task, worker_handles, channel,
                   receiver, streamed, latest_sent>>

-----------------------------------------------------------------------------

Init ==
    /\ crate \in Crates
    /\ exchange \in Exchanges
    /\ pc = "dispatch"
    /\ result = "pending"
    /\ task = [t \in TaskName |-> "none"]
    /\ worker_handles = {}
    /\ channel = <<>>
    /\ receiver = "local"
    /\ socket = "none"
    /\ streamed = 0
    /\ latest_sent = PreStreamReport

Program ==
    \/ CoreDispatch \/ CorePreStream \/ CoreConnect \/ CoreSubscribe
    \/ CorePreStreamSend \/ CoreReader \/ CoreKeepalive
    \/ ExtDispatch \/ ExtPreStream \/ ExtConnect \/ ExtSubscribe
    \/ ExtPreStreamSend \/ ExtReader
    \/ DelegateStep

Environment == Recv \/ DropReceiver \/ Hangup

Next == Program \/ Environment

Spec == Init /\ [][Next]_vars

\* create_receiver is awaited and its tasks are scheduled: each goes on
\* when it can.  A reader is only required to notice a hangup, since what
\* the exchange sends is up to the exchange.
Fairness ==
    /\ WF_vars(CoreDispatch \/ CorePreStream \/ CoreConnect \/ CoreSubscribe)
    /\ WF_vars(ExtDispatch \/ ExtPreStream \/ ExtConnect \/ ExtSubscribe)
    /\ WF_vars(CorePreStreamSend \/ ExtPreStreamSend)
    /\ WF_vars(CoreReader /\ socket = "closed")
    /\ WF_vars(ExtReader /\ socket = "closed")
    /\ WF_vars(CoreKeepalive)

FairSpec == Spec /\ Fairness

-----------------------------------------------------------------------------
(* Properties                                                              *)

TypeOK ==
    /\ crate \in Crates
    /\ exchange \in Exchanges
    /\ pc \in {"dispatch", "pre_stream", "connect", "subscribe", "returned"}
    /\ result \in {"pending", "ok", "err", "panic"}
    /\ task \in [TaskName -> {"none", "running"} \cup Ended]
    /\ worker_handles \subseteq TaskName
    /\ channel \in UNION {[1..n -> Report] : n \in 0..Capacity}
    /\ receiver \in {"local", "caller", "dropped"}
    /\ socket \in {"none", "open", "closed"}
    /\ streamed \in 0..MaxReports
    /\ latest_sent \in Report

\* The price reporter never reads an older price after a newer one: a
\* report sent into the ring is at least as recent as the one sent before
\* it (the send of the pre-stream task after its sleep, connection.rs:250-253,
\* against the sends of the reader's loop).
ReportsNeverGoBack == [][latest_sent' >= latest_sent]_vars

\* A stream that has stopped is visible to the price reporter: when
\* create_receiver has returned its receiver and no task is left that can
\* send a report, one of the handles in worker_handles has ended with an
\* error or a panic (the handles pushed at the end of create_receiver).
StoppedStreamIsVisible ==
    (result = "ok" /\ Senders = {}) =>
        \E t \in worker_handles : task[t] \in {"err", "panic"}

\* No task outlives its connection: once the websocket has hung up, or
\* create_receiver has failed, every task it spawned ends (the reader on
\* the error or the end of the stream, the keepalive task on its next
\* ping, the pre-stream task after its sleep).
HangupEndsEveryTask ==
    <>[]((socket = "closed" \/ result \in {"err", "panic"}) =>
            \A t \in TaskName \ {"delegate"} : task[t] # "running")

=============================================================================
