---------------------------- MODULE AirfrogTasks ----------------------------
(***************************************************************************)
(* The tasks of airfrog and the channels and signals between them: HTTP    *)
(* servers (http/server.rs), the Target task that owns the SWD interface   *)
(* (target/mod.rs), the Firmware task (firmware/mod.rs) and the RTT task   *)
(* (firmware/rtt.rs).                                                      *)
(*                                                                         *)
(* A task runs alone until it awaits something that is not ready, so a     *)
(* step is what a task does from one such await to the next: a question    *)
(* goes into its channel in the step that asks it, unless there is no room.*)
(* A channel is a sequence; a signal holds one value, the latest.          *)
(* with_timeout drops the future it guards: what that future has already   *)
(* sent stays where it is.                                                 *)
(***************************************************************************)
EXTENDS Naturals, Sequences

CONSTANTS
  Servers,    \* HTTP server tasks
  Routes,     \* the kinds of HTTP request clients make
  TargetOps,  \* what REST requests ask of the Target task
  FwOps,      \* and of the Firmware task: what it knows, or a handler to be run
  Firmwares,  \* what decoders may find: firmware without an RTT control block, or with one
  BinApi,     \* whether binary API clients connect
  Timeouts    \* whether anything takes long enough to time out

ASSUME TasksAssumption ==
  /\ Servers \cap {"fw", "rtt", "nobody"} = {}
  /\ Routes \subseteq {"target", "page", "firmware", "rtt"}
  /\ TargetOps \subseteq {"access", "reset", "raw_reset", "settings"}
  /\ FwOps \subseteq {"info", "handler"}
  /\ Firmwares \subseteq {"plain", "rtt"}
  /\ BinApi \in BOOLEAN
  /\ Timeouts \in BOOLEAN

VARIABLES
  srv,                    \* HTTP servers
  target, tq, tsig,       \* Target task, its request channel, response signals
  fw, ctrl, fq, fsig,     \* Firmware task, control signal, channel, signals
  rtt, rctrl, rq, rch     \* RTT task, control signal, channel, response channels

targetVars == <<target, tq, tsig>>
fwVars == <<fw, ctrl, fq, fsig>>
rttVars == <<rtt, rctrl, rq, rch>>
vars == <<srv, targetVars, fwVars, rttVars>>

CHANNEL_SIZE == 2     \* REQUEST_CHANNEL_SIZE, FW_CMD_CHANNEL, RTT_CMD_CHANNEL
DECODERS == 2         \* FirmwareRegistry::DECODERS

\* Who asks the Target task and waits on a response signal of its own.
Owners == Servers \cup {"fw", "rtt"}

\* fresh (history): the sender still waits for the answer to this message.
Msg(o, op) == [from |-> o, op |-> op, fresh |-> TRUE]
NoMsg == [from |-> "nobody", op |-> "none", fresh |-> FALSE]
NoSig == [empty |-> TRUE, fresh |-> FALSE, connected |-> FALSE]
Answer(m, up) == [empty |-> FALSE, fresh |-> m.fresh, connected |-> up]
NoCtrl == "none"

\* Mutant: off by one.
HasRoomForOneMore(q) == Len(q) <= CHANNEL_SIZE

HasRoom(q) == Len(q) < CHANNEL_SIZE
\* What is sent now, or not yet for want of room; and where that leaves the
\* sender.
Put(q, m) == IF HasRoom(q) THEN Append(q, m) ELSE q
AskAt(q, wait, send) == IF HasRoom(q) THEN wait ELSE send

Stale(m, o) == IF m.from = o THEN [m EXCEPT !.fresh = FALSE] ELSE m
StaleAll(q, o) == [i \in DOMAIN q |-> Stale(q[i], o)]

\* o no longer waits for the Target task.  sig is left in its signal.
LeaveTarget(o, sig) ==
  /\ target' = [target EXCEPT !.cur = Stale(@, o)]
  /\ tsig' = [tsig EXCEPT ![o] = [sig EXCEPT !.fresh = FALSE]]

\* o takes the answer in its response signal.
TakeAnswer(o) == ~tsig[o].empty /\ LeaveTarget(o, NoSig)

\* The same for the answers of the Firmware task and of the RTT task.
LeaveFw(s, sig) ==
  /\ fw' = [fw EXCEPT !.cmd = Stale(@, s)]
  /\ fsig' = [fsig EXCEPT ![s] = [sig EXCEPT !.fresh = FALSE]]

LeaveRtt(s, sig) ==
  /\ rtt' = [rtt EXCEPT !.cmd = Stale(@, s)]
  /\ rch' = [rch EXCEPT ![s] = [sig EXCEPT !.fresh = FALSE]]

-----------------------------------------------------------------------------
(* HTTP servers *)

Server(at, op, page) == [at |-> at, op |-> op, page |-> page]
ServerIdle == Server("idle", "none", FALSE)

\* handle_target_command: the request of a REST call, or the status a page
\* starts with.
AskTarget(s, op, page) ==
  /\ tq' = Put(tq, Msg(s, op))
  /\ srv' = [srv EXCEPT ![s] = AskAt(tq, Server("target_wait", "none", page),
                                         Server("target_send", op, page))]

SrvTarget(s) ==
  /\ srv[s].at = "idle"
  /\ \/ "target" \in Routes /\ \E op \in TargetOps : AskTarget(s, op, FALSE)
     \/ "page" \in Routes /\ AskTarget(s, "status", TRUE)
  /\ UNCHANGED <<target, tsig, fwVars, rttVars>>

SrvSendTarget(s) ==
  /\ srv[s].at = "target_send" /\ HasRoom(tq)
  /\ AskTarget(s, srv[s].op, srv[s].page)
  /\ UNCHANGED <<target, tsig, fwVars, rttVars>>

\* fw_command_wait: the response signal is emptied, then the command sent.
AskFw(s, op) ==
  /\ fsig' = [fsig EXCEPT ![s] = NoSig]
  /\ fq' = Put(fq, Msg(s, op))
  /\ srv' = [srv EXCEPT ![s] = AskAt(fq, Server("fw_wait", "none", FALSE),
                                         Server("fw_send", op, FALSE))]

\* get_summary_info goes on to ask the Firmware task when the status says
\* that the target is connected.
SrvTargetAnswer(s) ==
  /\ srv[s].at = "target_wait"
  /\ TakeAnswer(s)
  /\ tq' = StaleAll(tq, s)
  /\ IF srv[s].page /\ tsig[s].connected
     THEN AskFw(s, "info")
     ELSE srv' = [srv EXCEPT ![s] = ServerIdle] /\ UNCHANGED <<fq, fsig>>
  /\ UNCHANGED <<fw, ctrl, rttVars>>

\* Pages and buttons need what the Firmware task knows ("info"); custom
\* paths and REST calls run a handler that may access the target.
SrvFirmware(s) ==
  /\ srv[s].at = "idle"
  /\ "firmware" \in Routes
  /\ \E op \in FwOps : AskFw(s, op)
  /\ UNCHANGED <<targetVars, fw, ctrl, rttVars>>

SrvSendFw(s) ==
  /\ srv[s].at = "fw_send" /\ HasRoom(fq)
  /\ fq' = Put(fq, Msg(s, srv[s].op))
  /\ srv' = [srv EXCEPT ![s] = Server("fw_wait", "none", FALSE)]
  /\ UNCHANGED <<targetVars, fw, ctrl, fsig, rttVars>>

SrvFwAnswer(s) ==
  /\ srv[s].at = "fw_wait"
  /\ ~fsig[s].empty
  /\ LeaveFw(s, NoSig)
  /\ fq' = StaleAll(fq, s)
  /\ srv' = [srv EXCEPT ![s] = ServerIdle]
  /\ UNCHANGED <<targetVars, ctrl, rttVars>>

\* handle_rtt: rtt_command, then receive.
AskRtt(s) ==
  /\ rq' = Put(rq, Msg(s, "read"))
  /\ srv' = [srv EXCEPT ![s] = AskAt(rq, Server("rtt_wait", "none", FALSE),
                                         Server("rtt_send", "read", FALSE))]
  /\ UNCHANGED <<targetVars, fwVars, rtt, rctrl, rch>>

SrvRtt(s) == srv[s].at = "idle" /\ "rtt" \in Routes /\ AskRtt(s)
SrvSendRtt(s) == srv[s].at = "rtt_send" /\ HasRoom(rq) /\ AskRtt(s)

SrvRttAnswer(s) ==
  /\ srv[s].at = "rtt_wait"
  /\ ~rch[s].empty
  /\ LeaveRtt(s, NoSig)
  /\ rq' = StaleAll(rq, s)
  /\ srv' = [srv EXCEPT ![s] = ServerIdle]
  /\ UNCHANGED <<targetVars, fwVars, rctrl>>

\* A guarded future is polled before its timer: a timeout finds it blocked.
SrvBlocked(s) ==
  \/ srv[s].at = "target_send" /\ ~HasRoom(tq)
  \/ srv[s].at = "target_wait" /\ tsig[s].empty
  \/ srv[s].at = "fw_send" /\ ~HasRoom(fq)
  \/ srv[s].at = "fw_wait" /\ fsig[s].empty
  \/ srv[s].at = "rtt_send" /\ ~HasRoom(rq)
  \/ srv[s].at = "rtt_wait" /\ rch[s].empty

\* ROUTER_TIMEOUT around every route, FIRMWARE_TIMEOUT around handlers.
SrvTimeout(s) ==
  /\ Timeouts
  /\ SrvBlocked(s)
  /\ srv' = [srv EXCEPT ![s] = ServerIdle]
  /\ LeaveTarget(s, tsig[s]) /\ tq' = StaleAll(tq, s)
  /\ LeaveFw(s, fsig[s]) /\ fq' = StaleAll(fq, s)
  /\ LeaveRtt(s, rch[s]) /\ rq' = StaleAll(rq, s)
  /\ UNCHANGED <<ctrl, rctrl>>

-----------------------------------------------------------------------------
(* Target task *)

\* probe: keepalive or refresh is on; both find out that the target has gone.
AllOn == [auto_connect |-> TRUE, probe |-> TRUE]
AllOff == [auto_connect |-> FALSE, probe |-> FALSE]
Settings == [auto_connect : BOOLEAN, probe : BOOLEAN]

\* What a call leaves: the target task's own state, and the control signal of
\* the Firmware task.
Effect(t, c) == [target |-> t, ctrl |-> c]
Up(t) == [t EXCEPT !.connected = TRUE]
Down(t) == [t EXCEPT !.connected = FALSE]

\* connect() starts the Firmware task when it succeeds.
Connect(t, c) == {Effect(Up(t), "start"), Effect(Down(t), c)}

\* do_refresh() and do_keepalive() stop it when they fail.
Refresh(t, c) == {Effect(Up(t), c), Effect(Down(t), "stop")}

RestReset(t) == Connect([t EXCEPT !.settings = AllOn], ctrl)

\* A raw reset connects, or not, without telling the Firmware task.
RestRawReset(t) ==
  LET u == [t EXCEPT !.settings = AllOff] IN {Effect(Up(u), ctrl), Effect(Down(u), ctrl)}

UpdateSettings(t) == {Effect([t EXCEPT !.settings = x], ctrl) : x \in Settings}

\* Queries and accesses change the target itself; their errors are answers.
RestAccess(t) == {Effect(t, ctrl)}

HandleRequest(t, op) ==
  CASE op = "reset"     -> RestReset(t)
    [] op = "raw_reset" -> RestRawReset(t)
    [] op = "settings"  -> UpdateSettings(t)
    [] OTHER            -> RestAccess(t)

\* Mutant: is_connected() only looks.
LooksConnected(t, c) == c

\* is_connected() stops the Firmware task each time it says no.
IsConnected(t, c) == IF t.connected THEN c ELSE "stop"

\* The timer: refresh or keepalive while connected, else a reconnection.
TimerEffects(t) ==
  CASE t.connected /\ t.settings.probe -> Refresh(t, ctrl)
    [] ~t.connected /\ t.settings.auto_connect -> Connect(t, IsConnected(t, ctrl))
    [] OTHER -> {Effect(t, IsConnected(t, ctrl))}

\* The loop starts again; once the time to refresh has passed (expired)
\* is_connected() is asked.
Loop(e, expired) ==
  /\ target' = [e.target EXCEPT !.at = "idle", !.cur = NoMsg]
  /\ ctrl' = IF expired THEN IsConnected(e.target, e.ctrl) ELSE e.ctrl

\* select polls the request channel before the socket and the timer.
TargetReceive ==
  /\ target.at = "idle"
  /\ tq # <<>>
  /\ target' = [target EXCEPT !.at = "serving", !.cur = Head(tq)]
  /\ tq' = Tail(tq)
  /\ UNCHANGED <<srv, tsig, fwVars, rttVars>>

TargetRespond(expired) ==
  /\ target.at = "serving"
  /\ \E e \in HandleRequest(target, target.cur.op) :
       /\ Loop(e, expired)
       /\ tsig' = [tsig EXCEPT ![target.cur.from] =
            Answer(target.cur, target.cur.op \in {"status", "reset"} /\ e.target.connected)]
  /\ UNCHANGED <<srv, tq, fw, fq, fsig, rttVars>>

BinAccept ==
  /\ BinApi
  /\ target.at = "idle" /\ tq = <<>>
  /\ target' = [target EXCEPT !.at = "bin"]
  /\ UNCHANGED <<srv, tq, tsig, fwVars, rttVars>>

\* While a binary API client is served requests wait; then the target is reset.
BinEnd(expired) ==
  /\ target.at = "bin"
  /\ \E e \in Connect(target, ctrl) : Loop(e, expired)
  /\ UNCHANGED <<srv, tq, tsig, fw, fq, fsig, rttVars>>

TargetTimer ==
  /\ target.at = "idle" /\ tq = <<>>
  /\ \E e \in TimerEffects(target) : Loop(e, TRUE)
  /\ UNCHANGED <<srv, tq, tsig, fw, fq, fsig, rttVars>>

-----------------------------------------------------------------------------
(* Firmware task *)

\* Mutant: stop() leaves RTT alone.
FwStopAlone ==
  /\ fw.at = "select"
  /\ ctrl = "stop"
  /\ ctrl' = NoCtrl
  /\ fw' = [fw EXCEPT !.state = "Stopped", !.firmware = "none"]
  /\ UNCHANGED <<srv, targetVars, fq, fsig, rttVars>>

\* handle_control Stop.
FwStop ==
  /\ fw.at = "select"
  /\ ctrl = "stop"
  /\ ctrl' = NoCtrl
  /\ fw' = [fw EXCEPT !.state = "Stopped", !.firmware = "none"]
  /\ rctrl' = "stop"
  /\ UNCHANGED <<srv, targetVars, fq, fsig, rtt, rq, rch>>

\* FirmwareReader.read and FirmwareWriter.write send one request from f, with
\* q in the request channel.
FwAccess(f, q) ==
  /\ tq' = Put(q, Msg("fw", "access"))
  /\ fw' = [f EXCEPT !.at = AskAt(q, "wait", "send")]

\* handle_control Start: the decoders read the target, one after another.
FwStart ==
  /\ fw.at = "select"
  /\ ctrl = "start"
  /\ ctrl' = NoCtrl
  /\ FwAccess([fw EXCEPT !.state = "Started", !.job = "start", !.decoders = DECODERS], tq)
  /\ UNCHANGED <<srv, target, tsig, fq, fsig, rttVars>>

FwRespond(c) == fsig' = [fsig EXCEPT ![c.from] = Answer(c, FALSE)]

\* handle_command: without firmware, or for what is known, the answer comes
\* at once; a handler may go on to access the target.
FwCommand ==
  /\ fw.at = "select"
  /\ ctrl = NoCtrl
  /\ fq # <<>>
  /\ fq' = Tail(fq)
  /\ \/ FwRespond(Head(fq)) /\ UNCHANGED <<fw, tq>>
     \/ /\ fw.state = "Started" /\ fw.firmware # "none" /\ Head(fq).op = "handler"
        /\ FwAccess([fw EXCEPT !.job = "command", !.cmd = Head(fq)], tq)
        /\ UNCHANGED fsig
  /\ UNCHANGED <<srv, target, tsig, ctrl, rttVars>>

FwSendTarget ==
  /\ fw.at = "send" /\ HasRoom(tq)
  /\ FwAccess(fw, tq)
  /\ UNCHANGED <<srv, target, tsig, ctrl, fq, fsig, rttVars>>

FwReadMore ==
  /\ fw.at = "wait"
  /\ TakeAnswer("fw")
  /\ FwAccess(fw, StaleAll(tq, "fw"))
  /\ UNCHANGED <<srv, ctrl, fq, fsig, rttVars>>

FwSelect(f) == [f EXCEPT !.at = "select", !.job = "none", !.cmd = NoMsg, !.decoders = 0]

\* start() ends with firmware x; RTT is started if x has a control block.
Decoded(x) ==
  /\ fw' = [FwSelect(fw) EXCEPT !.firmware = x]
  /\ tq' = StaleAll(tq, "fw")
  /\ rctrl' = IF x = "rtt" THEN "start" ELSE rctrl

\* A decoder that finds nothing leaves the turn to the next one.
NextDecoder ==
  \/ /\ fw.decoders > 1
     /\ FwAccess([fw EXCEPT !.decoders = @ - 1], StaleAll(tq, "fw"))
     /\ UNCHANGED rctrl
  \/ fw.decoders = 1 /\ Decoded("none")

\* The last read of a decoder, and of a handler.
FwDecoded ==
  /\ fw.at = "wait" /\ fw.job = "start"
  /\ TakeAnswer("fw")
  /\ NextDecoder \/ \E x \in Firmwares : Decoded(x)
  /\ UNCHANGED <<srv, ctrl, fq, fsig, rtt, rq, rch>>

\* Mutant: FirmwareWriter.write does not wait for its answer.
FwHandledUnawaited ==
  /\ fw.at = "wait" /\ fw.job = "command"
  /\ LeaveTarget("fw", tsig["fw"])
  /\ tq' = StaleAll(tq, "fw")
  /\ fw' = FwSelect(fw)
  /\ FwRespond(fw.cmd)
  /\ UNCHANGED <<srv, ctrl, fq, rttVars>>

\* Mutant: the answer of a handler is not signalled.
FwHandledSilent ==
  /\ fw.at = "wait" /\ fw.job = "command"
  /\ TakeAnswer("fw")
  /\ tq' = StaleAll(tq, "fw")
  /\ fw' = FwSelect(fw)
  /\ UNCHANGED <<srv, ctrl, fq, fsig, rttVars>>

FwHandled ==
  /\ fw.at = "wait" /\ fw.job = "command"
  /\ TakeAnswer("fw")
  /\ tq' = StaleAll(tq, "fw")
  /\ fw' = FwSelect(fw)
  /\ FwRespond(fw.cmd)
  /\ UNCHANGED <<srv, ctrl, fq, rttVars>>

FwBlocked ==
  \/ fw.at = "send" /\ ~HasRoom(tq)
  \/ fw.at = "wait" /\ tsig["fw"].empty

\* FIRMWARE_DECODE_TIMEOUT around each call of a decoder.
FwDecodeTimeout ==
  /\ Timeouts
  /\ FwBlocked
  /\ fw.job = "start"
  /\ NextDecoder
  /\ LeaveTarget("fw", tsig["fw"])
  /\ UNCHANGED <<srv, ctrl, fq, fsig, rtt, rq, rch>>

\* Mutant: the sender of the command is not told.
FwHandlerTimeoutSilent ==
  /\ Timeouts
  /\ FwBlocked
  /\ fw.job = "command"
  /\ fw' = FwSelect(fw)
  /\ LeaveTarget("fw", tsig["fw"])
  /\ tq' = StaleAll(tq, "fw")
  /\ UNCHANGED <<srv, ctrl, fq, fsig, rttVars>>

\* FIRMWARE_HANDLER_TIMEOUT around a command.
FwHandlerTimeout ==
  /\ Timeouts
  /\ FwBlocked
  /\ fw.job = "command"
  /\ fw' = FwSelect(fw)
  /\ FwRespond(fw.cmd)
  /\ LeaveTarget("fw", tsig["fw"])
  /\ tq' = StaleAll(tq, "fw")
  /\ UNCHANGED <<srv, ctrl, fq, rttVars>>

-----------------------------------------------------------------------------
(* RTT task.  job: "poll" get_rtt_data_from_target, "restart" its stop()   *)
(* and start() after a device reset, "start" a start() asked for.          *)

\* read_bytes and write_word send one request.
RttAccess(r, q) ==
  /\ tq' = Put(q, Msg("rtt", "access"))
  /\ rtt' = [r EXCEPT !.at = AskAt(q, "wait", "send")]

\* The loop starts again: when started, it polls the target (unless the
\* local buffer is full) and then waits with a timer.
RttLoop(r, q) ==
  LET waiting == [r EXCEPT !.at = "select", !.job = "none", !.cmd = NoMsg,
                           !.timer = (r.state = "Started")]
  IN  \/ r.state = "Started" /\ RttAccess([waiting EXCEPT !.job = "poll"], q)
      \/ tq' = q /\ rtt' = waiting

\* select polls the command channel first.  The answer goes to the server's
\* channel of one, and the task waits there until it has room.
RttCommand ==
  /\ rtt.at = "select"
  /\ rq # <<>>
  /\ rq' = Tail(rq)
  /\ LET m == Head(rq)
     IN  IF rch[m.from].empty
         THEN rch' = [rch EXCEPT ![m.from] = Answer(m, FALSE)] /\ RttLoop(rtt, tq)
         ELSE rtt' = [rtt EXCEPT !.at = "reply", !.cmd = m] /\ UNCHANGED <<rch, tq>>
  /\ UNCHANGED <<srv, target, tsig, fwVars, rctrl>>

RttReply ==
  /\ rtt.at = "reply"
  /\ rch[rtt.cmd.from].empty
  /\ rch' = [rch EXCEPT ![rtt.cmd.from] = Answer(rtt.cmd, FALSE)]
  /\ RttLoop(rtt, tq)
  /\ UNCHANGED <<srv, target, tsig, fwVars, rctrl, rq>>

RttControl ==
  /\ rtt.at = "select"
  /\ rq = <<>>
  /\ \/ rctrl = "start" /\ RttAccess([rtt EXCEPT !.job = "start"], tq)
     \/ rctrl = "stop" /\ RttLoop([rtt EXCEPT !.state = "Stopped"], tq)
  /\ rctrl' = NoCtrl
  /\ UNCHANGED <<srv, target, tsig, fwVars, rq, rch>>

RttTimer ==
  /\ rtt.at = "select"
  /\ rtt.timer
  /\ rq = <<>> /\ rctrl = NoCtrl
  /\ RttLoop(rtt, tq)
  /\ UNCHANGED <<srv, target, tsig, fwVars, rctrl, rq, rch>>

RttSendTarget ==
  /\ rtt.at = "send" /\ HasRoom(tq)
  /\ RttAccess(rtt, tq)
  /\ UNCHANGED <<srv, target, tsig, fwVars, rctrl, rq, rch>>

RttReadMore ==
  /\ rtt.at = "wait"
  /\ TakeAnswer("rtt")
  /\ \/ RttAccess(rtt, StaleAll(tq, "rtt"))
     \/ rtt.job = "poll"
        /\ RttAccess([rtt EXCEPT !.job = "restart", !.state = "Stopped"], StaleAll(tq, "rtt"))
     \/ rtt.job = "restart"
        /\ RttAccess([rtt EXCEPT !.job = "poll", !.state = "Started"], StaleAll(tq, "rtt"))
  /\ UNCHANGED <<srv, fwVars, rctrl, rq, rch>>

\* Mutant: the RTT task gives a poll up before its last answer has come.
RttReadLastEarly ==
  /\ rtt.at = "wait"
  /\ \/ /\ tsig["rtt"].empty /\ rtt.job = "poll"
        /\ LeaveTarget("rtt", NoSig)
              /\ tq' = StaleAll(tq, "rtt")
        /\ rtt' = [rtt EXCEPT !.at = "select", !.job = "none", !.timer = TRUE]
     \/ /\ TakeAnswer("rtt")
        /\ rtt.job = "start"
        /\ RttLoop([rtt EXCEPT !.state = "Started"], StaleAll(tq, "rtt"))
  /\ UNCHANGED <<srv, fwVars, rctrl, rq, rch>>

\* The last answer of a poll or a failed restart, after which the task waits
\* with its timer; or of a start, which when it fails leaves the state alone.
RttReadLast ==
  /\ rtt.at = "wait"
  /\ TakeAnswer("rtt")
  /\ \/ /\ rtt.job \in {"poll", "restart"}
        /\ tq' = StaleAll(tq, "rtt")
        /\ rtt' = [rtt EXCEPT !.at = "select", !.job = "none", !.timer = TRUE]
     \/ /\ rtt.job = "start"
        /\ \E x \in {rtt.state, "Started"} : RttLoop([rtt EXCEPT !.state = x], StaleAll(tq, "rtt"))
  /\ UNCHANGED <<srv, fwVars, rctrl, rq, rch>>

-----------------------------------------------------------------------------
(* The specification *)

Init ==
  /\ srv = [s \in Servers |-> ServerIdle]
  /\ target = [at |-> "idle", cur |-> NoMsg, connected |-> FALSE, settings |-> AllOn]
  /\ tq = <<>>
  /\ tsig = [o \in Owners |-> NoSig]
  /\ fw = [at |-> "select", job |-> "none", cmd |-> NoMsg, decoders |-> 0,
           state |-> "Stopped", firmware |-> "none"]
  /\ ctrl = NoCtrl
  /\ fq = <<>>
  /\ fsig = [s \in Servers |-> NoSig]
  /\ rtt = [at |-> "select", job |-> "none", cmd |-> NoMsg, timer |-> FALSE, state |-> "Stopped"]
  /\ rctrl = NoCtrl
  /\ rq = <<>>
  /\ rch = [s \in Servers |-> NoSig]

SrvNext(s) ==
  \/ SrvTarget(s) \/ SrvSendTarget(s) \/ SrvTargetAnswer(s)
  \/ SrvFirmware(s) \/ SrvSendFw(s) \/ SrvFwAnswer(s)
  \/ SrvRtt(s) \/ SrvSendRtt(s) \/ SrvRttAnswer(s)
  \/ SrvTimeout(s)

TargetNext ==
  \/ TargetReceive \/ BinAccept \/ TargetTimer
  \/ \E expired \in BOOLEAN : TargetRespond(expired) \/ BinEnd(expired)

FwNext ==
  \/ FwStop \/ FwStart \/ FwCommand \/ FwSendTarget \/ FwReadMore \/ FwDecoded \/ FwHandled
  \/ FwDecodeTimeout \/ FwHandlerTimeout

RttNext ==
  \/ RttCommand \/ RttReply \/ RttControl \/ RttTimer
  \/ RttSendTarget \/ RttReadMore \/ RttReadLast

Next == (\E s \in Servers : SrvNext(s)) \/ TargetNext \/ FwNext \/ RttNext

Spec == Init /\ [][Next]_vars

\* The executor polls every task that was woken, timers expire, a sequence
\* of reads ends.  Senders that wait for room in a channel are all woken
\* when there is some; one may lose the race, but not for ever.
TargetFairness ==
  /\ WF_vars(TargetReceive) /\ SF_vars(TargetTimer)
  /\ WF_vars(TargetRespond(FALSE)) /\ SF_vars(TargetRespond(TRUE))

FwFairness ==
  /\ WF_vars(FwStop) /\ WF_vars(FwStart)
  /\ SF_vars(FwSendTarget) /\ SF_vars(FwDecoded) /\ SF_vars(FwHandled)

-----------------------------------------------------------------------------
(* Properties *)

MsgType(froms, ops) == [from : froms, op : ops, fresh : BOOLEAN]
SigType == [empty : BOOLEAN, fresh : BOOLEAN, connected : BOOLEAN]
TargetMsgs == MsgType(Owners, {"status", "access", "reset", "raw_reset", "settings"})
FwMsgs == MsgType(Servers, {"info", "handler"})
RttMsgs == MsgType(Servers, {"read"})

ServerType ==
  [at : {"idle", "target_send", "target_wait", "fw_send", "fw_wait", "rtt_send", "rtt_wait"},
   op : TargetOps \cup {"none", "status", "info", "handler", "read"}, page : BOOLEAN]

TargetType ==
  [at : {"idle", "serving", "bin"}, cur : TargetMsgs \cup {NoMsg}, connected : BOOLEAN,
   settings : Settings]

FwType ==
  [at : {"select", "send", "wait"}, job : {"none", "start", "command"},
   cmd : FwMsgs \cup {NoMsg}, decoders : 0 .. DECODERS,
   state : {"Started", "Stopped"}, firmware : {"none", "plain", "rtt"}]

RttType ==
  [at : {"select", "send", "wait", "reply"}, job : {"none", "poll", "restart", "start"},
   cmd : RttMsgs \cup {NoMsg}, timer : BOOLEAN, state : {"Started", "Stopped"}]

\* Each task is at one of its awaits, every channel within its capacity.
TypeOK ==
  /\ srv \in [Servers -> ServerType]
  /\ target \in TargetType
  /\ tq \in Seq(TargetMsgs) /\ Len(tq) <= CHANNEL_SIZE
  /\ tsig \in [Owners -> SigType]
  /\ fw \in FwType
  /\ ctrl \in {NoCtrl, "start", "stop"}
  /\ fq \in Seq(FwMsgs) /\ Len(fq) <= CHANNEL_SIZE
  /\ fsig \in [Servers -> SigType]
  /\ rtt \in RttType
  /\ rctrl \in {NoCtrl, "start", "stop"}
  /\ rq \in Seq(RttMsgs) /\ Len(rq) <= CHANNEL_SIZE
  /\ rch \in [Servers -> SigType]

Has(q, o) == \E i \in DOMAIN q : q[i].from = o
Pending(q, cur, sig, o) == Has(q, o) \/ cur.from = o \/ ~sig[o].empty

\* Whoever waits for an answer has its question queued or being handled, or
\* an answer ready: no timeout, cancelled handler or overwritten signal ever
\* leaves a task waiting for an answer nobody will give.
NoOrphanedWait ==
  /\ \A s \in Servers :
       /\ srv[s].at = "target_wait" => Pending(tq, target.cur, tsig, s)
       /\ srv[s].at = "fw_wait" => Pending(fq, fw.cmd, fsig, s)
       /\ srv[s].at = "rtt_wait" => Pending(rq, rtt.cmd, rch, s)
  /\ fw.at = "wait" => Pending(tq, target.cur, tsig, "fw")
  /\ rtt.at = "wait" => Pending(tq, target.cur, tsig, "rtt")

\* An answer that is ready is for the question the one who waits for it asked
\* last, and not for one given up before.
Own(waits, sig) == waits => sig.empty \/ sig.fresh

\* Every answer a task takes is the answer to the question it asked last.
\* This holds as long as nothing times out.
AnswersOwn ==
  /\ \A s \in Servers :
       /\ Own(srv[s].at = "target_wait", tsig[s])
       /\ Own(srv[s].at = "fw_wait", fsig[s])
       /\ Own(srv[s].at = "rtt_wait", rch[s])
  /\ Own(fw.at = "wait", tsig["fw"])
  /\ Own(rtt.at = "wait", tsig["rtt"])

\* The RTT task gives no question up, so it takes its own answers whatever
\* else times out: it never parses another read as a ring position.
RttReadsOwn == Own(rtt.at = "wait", tsig["rtt"])

\* RTT reads the target only while the Firmware task runs, or has just been
\* told to stop: no start, restart or stop of the two tasks, in any order,
\* leaves RTT reading the memory of a target that is gone.
RttFollowsFw ==
  fw.state = "Stopped" =>
    rctrl = "stop" \/ (rtt.state = "Stopped" /\ rtt.job = "none" /\ rctrl = NoCtrl)

\* A target that stays disconnected ends with the Firmware task stopped, unless
\* the Target task stays with a binary API client.
DisconnectStopsFw ==
  <>[](~target.connected) /\ []<>(target.at # "bin") => <>[](fw.state = "Stopped")

-----------------------------------------------------------------------------
(* What comments of the repository say, and the code does not do *)

\* handle_target_command: "Handles commands by sending to the Target and
\* returning the response." (http/server.rs)
CommandGetsItsResponse == \A s \in Servers : Own(srv[s].at = "target_wait", tsig[s])
=============================================================================
