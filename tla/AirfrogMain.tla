----------------------------- MODULE AirfrogMain -----------------------------
(***************************************************************************)
(* What airfrog's main does (main.rs): it loads the configuration, brings  *)
(* the network up together with the WiFi controller task                   *)
(* (airfrog-util/src/net.rs), starts the servers on the interface that     *)
(* came up, and then stores configurations and reboots when it is told to. *)
(*                                                                         *)
(* A step is what main or the controller does between two awaits.  Power   *)
(* may be lost at any time, also while the flash is written.               *)
(***************************************************************************)
EXTENDS Naturals

CONSTANTS
  NetModes,    \* modes clients configure
  Names,       \* what becomes of a name clients configure: "whole", or "cut"
  Fails,       \* what may fail: "radio", "flash"
  MaxLosses    \* bound: how often power is lost

ASSUME MainAssumption ==
  /\ NetModes \subseteq {"StaFallbackToAp", "ApOnly"}
  /\ Names \subseteq {"whole", "cut"}
  /\ Fails \subseteq {"radio", "flash"}
  /\ MaxLosses \in Nat

VARIABLES
  conf, flash,       \* CONFIG, and the configuration partition
  store, reboot,     \* CONFIG_STORE_SIGNAL, REBOOT_SIGNAL
  main, server,      \* where main is; the interface servers run on
  ctl,               \* the controller task
  control, status,   \* CONTROL_STA and CONTROL_AP, STATUS_STA and STATUS_AP
  radio,             \* mode that runs, link of the station, whether a loss was signalled
  losses,            \* how often power was lost
  failed, kept, due  \* histories: see Fail, AskReboot and Update

confVars == <<conf, flash, store>>
mainVars == <<main, server>>
netVars == <<ctl, control, status, radio>>
histVars == <<losses, failed, kept, due>>
vars == <<confVars, reboot, mainVars, netVars, histVars>>

-----------------------------------------------------------------------------
(* Configuration *)

\* What deserialize() accepts: a name too long for its field is cut.
Configs == [mode : NetModes, sta : Names, ap : Names]
\* get_string(): a name cut within a character is no UTF-8, and its interface
\* then has no configuration.
HasInterface(name) == name = "whole"

Default == [mode |-> "StaFallbackToAp", sta |-> "whole", ap |-> "whole"]

Partition(c) == [valid |-> TRUE, conf |-> c]
Torn == [valid |-> FALSE, conf |-> Default]

\* History: something has failed since airfrog started.
Fail(kind) == kind \in Fails /\ failed' = TRUE

\* What writing c may leave in the flash; what is there already is not written.
Write(c) ==
  \/ flash' = Partition(c) /\ UNCHANGED failed
  \/ flash # Partition(c) /\ Fail("flash") /\ flash' \in {flash, Torn}

-----------------------------------------------------------------------------
(* Starting *)

NoSignal == "none"
Interfaces == {"Sta", "Ap"}
NoSignals == [i \in Interfaces |-> NoSignal]

\* control() of the start of main, given the mode configured.
FirstControl(c) ==
  IF c.mode = "ApOnly" THEN [NoSignals EXCEPT !.Ap = "Enable"]
                       ELSE [NoSignals EXCEPT !.Sta = "Enable"]
FirstWait(c) == IF c.mode = "ApOnly" THEN "ap_enable" ELSE "sta_enable"

NewCtl == [at |-> "select", mode |-> {}, connected |-> FALSE, new |-> {},
           type |-> "none", control |-> NoSignal]
NewRadio == [mode |-> {}, link |-> FALSE, lost |-> FALSE]

\* airfrog starts with f in its flash: it loads the configuration, or makes the
\* default one and tries to store that, and asks for the first interface.
Restart(f) == \E read \in BOOLEAN :
  LET c == IF read /\ f.valid THEN f.conf ELSE Default
  IN  /\ read \/ "flash" \in Fails
      /\ conf' = c
      /\ \/ flash' = Partition(c)
         \/ "flash" \in Fails /\ f # Partition(c) /\ flash' \in {f, Torn}
      /\ store' = FALSE /\ reboot' = FALSE
      /\ main' = FirstWait(c) /\ server' = "none"
      /\ ctl' = NewCtl
      /\ control' = FirstControl(c)
      /\ status' = NoSignals
      /\ radio' = NewRadio
      /\ failed' = (~read \/ flash' # Partition(c))
      /\ kept' = {}

\* main waits for a status of this interface, whichever it is.
Await(at, i) ==
  /\ main = at
  /\ status[i] # NoSignal
  /\ status' = [status EXCEPT ![i] = NoSignal]

Enabled(i) == control' = [control EXCEPT ![i] = "Enable"]
Disabled(i) == control' = [control EXCEPT ![i] = "Disable"]

\* expect("Internal error: No STA config") without a station to wait for.
MainStaEnabled ==
  /\ Await("sta_enable", "Sta")
  /\ main' = IF HasInterface(conf.sta) THEN "link" ELSE "panic"
  /\ UNCHANGED <<confVars, reboot, server, ctl, control, radio, histVars>>

MainLinkUp ==
  /\ main = "link" /\ radio.link
  /\ main' = "ip"
  /\ UNCHANGED <<confVars, reboot, server, netVars, histVars>>

MainGotIp ==
  /\ main = "ip" /\ radio.link
  /\ main' = "loop" /\ server' = "Sta"
  /\ UNCHANGED <<confVars, reboot, netVars, histVars>>

\* Mutant: the address is waited for without a deadline.
MainStaLinkTimeout ==
  /\ main = "link"
  /\ main' = "sta_disable"
  /\ Disabled("Sta")
  /\ UNCHANGED <<confVars, reboot, server, ctl, status, radio, histVars>>

\* WIFI_STA_TIMEOUT, one deadline for the link and the address.
MainStaTimeout ==
  /\ main \in {"link", "ip"}
  /\ main' = "sta_disable"
  /\ Disabled("Sta")
  /\ UNCHANGED <<confVars, reboot, server, ctl, status, radio, histVars>>

MainStaDisabled ==
  /\ Await("sta_disable", "Sta")
  /\ main' = "ap_enable"
  /\ Enabled("Ap")
  /\ UNCHANGED <<confVars, reboot, server, ctl, radio, histVars>>

\* Mutant: no server is started on the access point.
MainApNoServer ==
  /\ Await("ap_enable", "Ap")
  /\ main' = "loop"
  /\ UNCHANGED <<confVars, reboot, server, ctl, control, radio, histVars>>

\* expect("AP stack should be available if AP is started").
MainApEnabled ==
  /\ Await("ap_enable", "Ap")
  /\ IF HasInterface(conf.ap) THEN main' = "loop" /\ server' = "Ap"
                          ELSE main' = "panic" /\ UNCHANGED server
  /\ UNCHANGED <<confVars, reboot, ctl, control, radio, histVars>>

-----------------------------------------------------------------------------
(* Storing and rebooting *)

\* The task the CONFIG mutex and the flash belong to writes without waiting.
MainStore ==
  /\ main = "loop" /\ store
  /\ store' = FALSE
  /\ Write(conf)
  /\ due' = IF flash' = Partition(conf) THEN due ELSE {}
  /\ UNCHANGED <<conf, reboot, mainVars, netVars, losses, kept>>

\* Mutant: the reboot is looked at first.
MainRebootFirst ==
  /\ main = "loop" /\ reboot
  /\ reboot' = FALSE
  /\ main' = "reboot"
  /\ UNCHANGED <<confVars, server, netVars, histVars>>

\* select polls the store signal first; the reset comes a second later.
MainReboot ==
  /\ main = "loop" /\ ~store /\ reboot
  /\ reboot' = FALSE
  /\ main' = "reboot"
  /\ UNCHANGED <<confVars, server, netVars, histVars>>

SoftwareReset ==
  /\ main = "reboot"
  /\ Restart(flash)
  /\ due' = IF failed' THEN {} ELSE due
  /\ UNCHANGED losses

\* Power is lost, maybe in the middle of a write: a configuration that was not
\* yet written is lost with it.
PowerLoss ==
  /\ losses < MaxLosses
  /\ losses' = losses + 1
  /\ \/ Restart(flash)
     \/ main = "loop" /\ store /\ flash # Partition(conf) /\ Restart(Torn)
  /\ due' = IF store \/ failed' THEN {} ELSE due

-----------------------------------------------------------------------------
(* WiFi controller.  A mode is the set of interfaces it runs. *)

\* enable_mode, disable_mode.
NewMode(mode, i, c) == IF c = "Enable" THEN mode \cup {i} ELSE mode \ {i}

\* select3 polls CONTROL_STA, then CONTROL_AP, then the station's future.
CtlControl(i) ==
  /\ ctl.at = "select"
  /\ control[i] # NoSignal
  /\ i = "Ap" => control.Sta = NoSignal
  /\ control' = [control EXCEPT ![i] = NoSignal]
  /\ LET new == NewMode(ctl.mode, i, control[i])
     IN  ctl' = IF new = ctl.mode THEN ctl
                ELSE [ctl EXCEPT !.at = "reconfigure", !.new = new, !.type = i,
                                 !.control = control[i]]
  /\ UNCHANGED <<confVars, reboot, mainVars, status, radio, histVars>>

Radio(mode) ==
  [mode |-> mode, link |-> FALSE, lost |-> radio.lost \/ radio.link]

CtlSelect(mode) ==
  [ctl EXCEPT !.at = "select", !.mode = mode, !.new = {}, !.type = "none", !.control = NoSignal]

Applied == [status EXCEPT ![ctl.type] = IF ctl.control = "Enable" THEN "Enabled" ELSE "Disabled"]

\* Mutant: the status is signalled though the radio did not start.
CtlReconfigureAnyway ==
  /\ ctl.at = "reconfigure"
  /\ status' = Applied
  /\ \/ radio' = Radio(ctl.new) /\ UNCHANGED failed
     \/ Fail("radio") /\ radio' \in {radio, Radio({})}
  /\ ctl' = CtlSelect(ctl.new)
  /\ UNCHANGED <<confVars, reboot, mainVars, control, losses, kept, due>>

\* reconfigure_wifi stops and starts the radio.  When one of them fails the
\* mode is the old one and no status is signalled.
CtlReconfigure ==
  /\ ctl.at = "reconfigure"
  /\ \/ /\ radio' = Radio(ctl.new)
        /\ ctl' = CtlSelect(ctl.new)
        /\ status' = Applied
        /\ UNCHANGED failed
     \/ /\ Fail("radio")
        /\ radio' \in {radio, Radio({})}
        /\ ctl' = CtlSelect(ctl.mode)
        /\ UNCHANGED status
  /\ UNCHANGED <<confVars, reboot, mainVars, control, losses, kept, due>>

StaRuns == ctl.at = "select" /\ "Sta" \in ctl.mode /\ control = NoSignals

\* connect_async succeeds; while it does not it is called again.
CtlConnect ==
  /\ StaRuns /\ ~ctl.connected
  /\ "Sta" \in radio.mode
  /\ radio' = [radio EXCEPT !.link = TRUE, !.lost = FALSE]
  /\ ctl' = [ctl EXCEPT !.connected = TRUE]
  /\ status' = [status EXCEPT !.Sta = "Connected"]
  /\ UNCHANGED <<confVars, reboot, mainVars, control, histVars>>

\* Mutant: the station is taken to be connected after any of its events.
CtlDisconnectedKept ==
  /\ StaRuns /\ ctl.connected /\ radio.lost
  /\ radio' = [radio EXCEPT !.lost = FALSE]
  /\ status' = [status EXCEPT !.Sta = "Disconnected"]
  /\ UNCHANGED <<confVars, reboot, mainVars, ctl, control, histVars>>

CtlDisconnected ==
  /\ StaRuns /\ ctl.connected /\ radio.lost
  /\ radio' = [radio EXCEPT !.lost = FALSE]
  /\ ctl' = [ctl EXCEPT !.connected = FALSE]
  /\ status' = [status EXCEPT !.Sta = "Disconnected"]
  /\ UNCHANGED <<confVars, reboot, mainVars, control, histVars>>

LinkLost ==
  /\ radio.link
  /\ radio' = [radio EXCEPT !.link = FALSE, !.lost = TRUE]
  /\ UNCHANGED <<confVars, reboot, mainVars, ctl, control, status, histVars>>

-----------------------------------------------------------------------------
(* What clients of the servers ask, by REST.  The servers run on while main *)
(* waits before a reboot.                                                   *)

\* Mutant: the new configuration is not signalled to main.
UpdateInMemory(c) ==
  /\ server # "none"
  /\ conf' = c
  /\ kept' = IF kept = {} THEN {} ELSE kept \cup {c}
  /\ due' = IF main = "loop" THEN {c} ELSE {}
  /\ UNCHANGED <<flash, store, reboot, mainVars, netVars, losses, failed>>

\* rest_config_net, update_settings: in memory, and to be stored.  History: due
\* is the configuration the flash has or gets, the one accepted last; not one
\* accepted in the second before the reset, which main no longer stores.
Update(c) ==
  /\ server # "none"
  /\ conf' = c
  /\ store' = TRUE
  /\ kept' = IF kept = {} THEN {} ELSE kept \cup {c}
  /\ due' = IF main = "loop" THEN {c} ELSE {}
  /\ UNCHANGED <<flash, reboot, mainVars, netVars, losses, failed>>

\* handle_reboot.  History: kept are the configurations the next start may
\* use: the one accepted last when the reboot is asked for, or a later one.
AskReboot ==
  /\ server # "none"
  /\ reboot' = TRUE
  /\ kept' = IF kept = {} THEN {conf} ELSE kept
  /\ UNCHANGED <<confVars, mainVars, netVars, losses, failed, due>>

-----------------------------------------------------------------------------
(* The specification *)

Init ==
  /\ conf = Default /\ flash = Partition(Default)
  /\ store = FALSE /\ reboot = FALSE
  /\ main = FirstWait(Default) /\ server = "none"
  /\ ctl = NewCtl
  /\ control = FirstControl(Default)
  /\ status = NoSignals
  /\ radio = NewRadio
  /\ losses = 0 /\ failed = FALSE /\ kept = {} /\ due = {}

MainStart ==
  \/ MainStaEnabled \/ MainLinkUp \/ MainGotIp \/ MainStaTimeout
  \/ MainStaDisabled \/ MainApEnabled

Ctl == (\E i \in Interfaces : CtlControl(i)) \/ CtlReconfigure \/ CtlConnect \/ CtlDisconnected

Next ==
  \/ MainStart \/ MainStore \/ MainReboot \/ SoftwareReset \/ PowerLoss
  \/ Ctl \/ LinkLost
  \/ (\E c \in Configs : Update(c)) \/ AskReboot

Spec == Init /\ [][Next]_vars

\* main and the controller run when they can.  A station out of reach need
\* not connect, and main does not wait for it longer than its timeout.
MainFairness ==
  /\ WF_vars(MainStart) /\ WF_vars(MainStore) /\ WF_vars(MainReboot) /\ WF_vars(SoftwareReset)
  /\ WF_vars((\E i \in Interfaces : CtlControl(i)) \/ CtlReconfigure \/ CtlDisconnected)

FairSpec == Spec /\ MainFairness

-----------------------------------------------------------------------------
(* Properties *)

Signals == [Interfaces -> {NoSignal, "Enable", "Disable"}]
Statuses == [Interfaces -> {NoSignal, "Enabled", "Disabled", "Connected", "Disconnected"}]
AllConfigs == Configs \cup {Default}

\* main is at one of its awaits, and past the start of the network only with
\* servers to get there (http::start of main.rs); every signal holds a value of its type.
TypeOK ==
  /\ conf \in AllConfigs
  /\ flash \in [valid : BOOLEAN, conf : AllConfigs]
  /\ store \in BOOLEAN /\ reboot \in BOOLEAN
  /\ main \in {"sta_enable", "link", "ip", "sta_disable", "ap_enable", "loop", "reboot", "panic"}
  /\ server \in Interfaces \cup {"none"}
  /\ server # "none" <=> main \in {"loop", "reboot"}
  /\ ctl \in [at : {"select", "reconfigure"}, mode : SUBSET Interfaces, connected : BOOLEAN,
              new : SUBSET Interfaces, type : Interfaces \cup {"none"},
              control : {NoSignal, "Enable", "Disable"}]
  /\ control \in Signals
  /\ status \in Statuses
  /\ radio \in [mode : SUBSET Interfaces, link : BOOLEAN, lost : BOOLEAN]
  /\ losses \in 0 .. MaxLosses
  /\ failed \in BOOLEAN
  /\ kept \subseteq AllConfigs /\ due \subseteq Configs

\* Servers run only on an interface the radio runs, whatever stale status
\* ended a wait of main and whatever of the radio failed; and once nothing is
\* left to do and nothing failed, that is the only one.
ServedRuns ==
  server # "none" =>
    /\ server \in radio.mode
    /\ ctl.at = "select" /\ control = NoSignals /\ ~failed => radio.mode = {server}

\* A configuration accepted before a reboot is asked for is the one airfrog
\* starts with, unless a later one is or the flash failed.
RebootKeepsUpdate ==
  [][main = "reboot" /\ main' # "reboot" => failed \/ failed' \/ conf' \in kept]_vars

\* If nothing fails airfrog ends up serving, each time it starts.
Serves == []<>(server # "none" \/ failed)

\* A configuration a client was told is accepted reaches the flash and stays
\* there, over reboots and losses of power, until a client configures another:
\* it is lost only with the power before it was written, with a failure of the
\* flash, or when it came in the second before a reset.
Stored == \A c \in Configs : due = {c} ~> (flash = Partition(c) \/ due # {c})

\* A station that lost its link gets it back, if connecting ever succeeds.
Reconnects == WF_vars(CtlConnect) => []<>(server = "Sta" => radio.link)

-----------------------------------------------------------------------------
(* What an assertion of the repository says, and the code does not do *)

\* expect("Internal error: No STA config") (main.rs): main never panics.
NoPanic == main # "panic"
=============================================================================
