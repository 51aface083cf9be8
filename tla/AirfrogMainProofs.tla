-------------------------- MODULE AirfrogMainProofs --------------------------
(***************************************************************************)
(* Theorems of AirfrogMain, for any configurations, failures and losses of *)
(* power.                                                                  *)
(***************************************************************************)
EXTENDS AirfrogMain, TLAPS

-----------------------------------------------------------------------------
(* Types.  What all that starts airfrog anew has in common.                *)

LEMMA ValueFacts ==
  /\ Default \in AllConfigs /\ Configs \subseteq AllConfigs
  /\ \A c \in AllConfigs : Partition(c) \in [valid : BOOLEAN, conf : AllConfigs]
                           /\ Partition(c).valid /\ Partition(c).conf = c
  /\ Torn \in [valid : BOOLEAN, conf : AllConfigs] /\ ~Torn.valid
  /\ NoSignals \in Signals /\ NoSignals \in Statuses
  BY DEF AllConfigs, Partition, Torn, NoSignals, Signals, Statuses, Interfaces, NoSignal

LEMMA RestartType ==
  ASSUME NEW f \in [valid : BOOLEAN, conf : AllConfigs], Restart(f), losses' \in 0 .. MaxLosses,
         due' \subseteq Configs
  PROVE  TypeOK'
  <1>0. PICK read \in BOOLEAN : \E c :
          /\ c = IF read /\ f.valid THEN f.conf ELSE Default
          /\ conf' = c
          /\ \/ flash' = Partition(c)
             \/ "flash" \in Fails /\ f # Partition(c) /\ flash' \in {f, Torn}
          /\ store' = FALSE /\ reboot' = FALSE
          /\ main' = FirstWait(c) /\ server' = "none"
          /\ ctl' = NewCtl
          /\ control' = FirstControl(c)
          /\ status' = NoSignals
          /\ radio' = NewRadio
          /\ failed' = (~read \/ flash' # Partition(c))
          /\ kept' = {}
    BY DEF Restart
  <1>1. PICK c :
          /\ c = IF read /\ f.valid THEN f.conf ELSE Default
          /\ conf' = c
          /\ \/ flash' = Partition(c)
             \/ "flash" \in Fails /\ f # Partition(c) /\ flash' \in {f, Torn}
          /\ store' = FALSE /\ reboot' = FALSE
          /\ main' = FirstWait(c) /\ server' = "none"
          /\ ctl' = NewCtl
          /\ control' = FirstControl(c)
          /\ status' = NoSignals
          /\ radio' = NewRadio
          /\ failed' = (~read \/ flash' # Partition(c))
          /\ kept' = {}
    BY <1>0
  <1>2. c \in AllConfigs BY <1>1, ValueFacts
  <1>3. flash' \in [valid : BOOLEAN, conf : AllConfigs] BY <1>1, <1>2, ValueFacts
  <1>4. main' \in {"sta_enable", "ap_enable"} BY <1>1 DEF FirstWait
  <1>5. control' \in Signals BY <1>1 DEF FirstControl, NoSignals, Signals, NoSignal, Interfaces
  <1>6. /\ ctl' \in [at : {"select", "reconfigure"}, mode : SUBSET Interfaces, connected : BOOLEAN,
                     new : SUBSET Interfaces, type : Interfaces \cup {"none"},
                     control : {NoSignal, "Enable", "Disable"}]
        /\ radio' \in [mode : SUBSET Interfaces, link : BOOLEAN, lost : BOOLEAN]
    BY <1>1 DEF NewCtl, NewRadio
  <1>7. status' \in Statuses BY <1>1, ValueFacts
  <1>8. failed' \in BOOLEAN BY <1>1
  <1> QED BY <1>1, <1>2, <1>3, <1>4, <1>5, <1>6, <1>7, <1>8 DEF TypeOK

\* main's own steps change where it is, one signal, and its server.
LEMMA MainType == ASSUME TypeOK, MainStart PROVE TypeOK'
  <1>1. UNCHANGED <<confVars, reboot, ctl, radio, histVars>>
    BY DEF MainStart, MainStaEnabled, MainLinkUp, MainGotIp, MainStaTimeout, MainStaDisabled,
           MainApEnabled, netVars
  <1>2. status' \in Statuses
    <2>1. \A at, i : Await(at, i) => status' \in Statuses BY DEF Await, TypeOK, Statuses
    <2> QED BY <2>1 DEF MainStart, MainStaEnabled, MainLinkUp, MainGotIp, MainStaTimeout,
                        MainStaDisabled, MainApEnabled, netVars, TypeOK
  <1>3. control' \in Signals
    <2>1. \A i : (Enabled(i) \/ Disabled(i)) => control' \in Signals
      BY DEF Enabled, Disabled, TypeOK, Signals
    <2> QED BY <2>1 DEF MainStart, MainStaEnabled, MainLinkUp, MainGotIp, MainStaTimeout,
                        MainStaDisabled, MainApEnabled, netVars, TypeOK
  <1>4. /\ main' \in {"sta_enable", "link", "ip", "sta_disable", "ap_enable", "loop", "reboot", "panic"}
        /\ server' \in Interfaces \cup {"none"}
        /\ server' # "none" <=> main' \in {"loop", "reboot"}
    BY DEF MainStart, MainStaEnabled, MainLinkUp, MainGotIp, MainStaTimeout, MainStaDisabled,
           MainApEnabled, Await, TypeOK, Interfaces
  <1> QED BY <1>1, <1>2, <1>3, <1>4 DEF TypeOK, confVars, histVars

LEMMA StoreType ==
  ASSUME TypeOK, MainStore \/ MainReboot \/ AskReboot \/ \E c \in Configs : Update(c)
  PROVE  TypeOK'
  <1>1. CASE MainStore
    <2>1. flash' \in {flash, Torn, Partition(conf)} /\ failed' \in {TRUE, failed}
      BY <1>1 DEF MainStore, Write, Fail
    <2>2. conf \in AllConfigs /\ flash \in [valid : BOOLEAN, conf : AllConfigs]
          /\ failed \in BOOLEAN
      BY DEF TypeOK
    <2>3. Partition(conf) \in [valid : BOOLEAN, conf : AllConfigs] BY <2>2, ValueFacts
    <2>4. flash' \in [valid : BOOLEAN, conf : AllConfigs] BY <2>1, <2>2, <2>3, ValueFacts
    <2>5. failed' \in BOOLEAN BY <2>1, <2>2
    <2> QED BY <1>1, <2>4, <2>5 DEF MainStore, TypeOK, mainVars, netVars
  <1>2. CASE MainReboot BY <1>2 DEF MainReboot, TypeOK, confVars, netVars, histVars
  <1>3. CASE AskReboot BY <1>3 DEF AskReboot, TypeOK, confVars, mainVars, netVars
  <1>4. ASSUME NEW c \in Configs, Update(c) PROVE TypeOK'
    BY <1>4, ValueFacts DEF Update, TypeOK, mainVars, netVars
  <1> QED BY <1>1, <1>2, <1>3, <1>4

LEMMA CtlType == ASSUME TypeOK, Ctl \/ LinkLost PROVE TypeOK'
  <1>0. UNCHANGED <<confVars, reboot, mainVars, losses, kept, due>>
    BY DEF Ctl, CtlControl, CtlReconfigure, CtlConnect, CtlDisconnected, LinkLost, histVars
  <1> DEFINE C == [at : {"select", "reconfigure"}, mode : SUBSET Interfaces, connected : BOOLEAN,
                   new : SUBSET Interfaces, type : Interfaces \cup {"none"},
                   control : {NoSignal, "Enable", "Disable"}]
             R == [mode : SUBSET Interfaces, link : BOOLEAN, lost : BOOLEAN]
  <1>1. ctl \in C /\ radio \in R /\ status \in Statuses /\ control \in Signals /\ failed \in BOOLEAN
    BY DEF TypeOK
  <1>2. SUFFICES ctl' \in C /\ radio' \in R /\ status' \in Statuses /\ control' \in Signals
                 /\ failed' \in BOOLEAN
    BY <1>0 DEF TypeOK, confVars, mainVars
  <1>3. ASSUME NEW i \in Interfaces, CtlControl(i)
        PROVE  ctl' \in C /\ radio' \in R /\ status' \in Statuses /\ control' \in Signals
               /\ failed' \in BOOLEAN
    <2>1. control' \in Signals BY <1>1, <1>3 DEF CtlControl, Signals
    <2>2. control[i] \in {NoSignal, "Enable", "Disable"} BY <1>1 DEF Signals
    <2>3. NewMode(ctl.mode, i, control[i]) \in SUBSET Interfaces BY <1>1 DEF NewMode
    <2>4. ctl' \in C BY <1>1, <1>3, <2>2, <2>3 DEF CtlControl
    <2> QED BY <1>1, <1>3, <2>1, <2>4 DEF CtlControl, histVars
  <1>4. CASE CtlReconfigure
    <2>1. \A mode \in SUBSET Interfaces : Radio(mode) \in R /\ CtlSelect(mode) \in C
      BY <1>1 DEF Radio, CtlSelect
    <2>2. Applied \in Statuses BY <1>1 DEF Applied, Statuses
    <2>3. ctl.mode \in SUBSET Interfaces /\ ctl.new \in SUBSET Interfaces /\ {} \in SUBSET Interfaces
      BY <1>1
    <2>4. radio' \in {radio, Radio({}), Radio(ctl.new)} BY <1>4 DEF CtlReconfigure
    <2>5. ctl' \in {CtlSelect(ctl.mode), CtlSelect(ctl.new)} BY <1>4 DEF CtlReconfigure
    <2>6. status' \in {status, Applied} /\ failed' \in {failed, TRUE} /\ control' = control
      BY <1>4 DEF CtlReconfigure, Fail
    <2>7. radio' \in R BY <1>1, <2>1, <2>3, <2>4
    <2>8. ctl' \in C BY <1>1, <2>1, <2>3, <2>5
    <2>9. status' \in Statuses BY <1>1, <2>2, <2>6
    <2>10. control' \in Signals BY <1>1, <2>6
    <2>11. failed' \in BOOLEAN BY <1>1, <2>6
    <2> HIDE DEF C, R
    <2> QED BY <2>7, <2>8, <2>9, <2>10, <2>11
  <1>5. CASE CtlConnect BY <1>1, <1>5 DEF CtlConnect, Statuses, Interfaces, histVars
  <1>6. CASE CtlDisconnected BY <1>1, <1>6 DEF CtlDisconnected, Statuses, Interfaces, histVars
  <1>7. CASE LinkLost BY <1>1, <1>7 DEF LinkLost, histVars
  <1> QED BY <1>3, <1>4, <1>5, <1>6, <1>7 DEF Ctl

LEMMA InitType == Init => TypeOK
  <1> SUFFICES ASSUME Init PROVE TypeOK OBVIOUS
  <1>1. FirstControl(Default) \in Signals
    BY DEF FirstControl, NoSignals, Signals, NoSignal, Interfaces
  <1>2. FirstWait(Default) = "sta_enable" BY DEF FirstWait, Default
  <1>3. 0 \in 0 .. MaxLosses BY MainAssumption
  <1> QED BY <1>1, <1>2, <1>3, ValueFacts DEF Init, TypeOK, NewCtl, NewRadio

LEMMA NextType == TypeOK /\ [Next]_vars => TypeOK'
  <1> SUFFICES ASSUME TypeOK, [Next]_vars PROVE TypeOK' OBVIOUS
  <1>1. CASE UNCHANGED vars
    BY <1>1 DEF vars, confVars, mainVars, netVars, histVars, TypeOK
  <1>2. CASE SoftwareReset
    <2>1. due' \subseteq Configs BY <1>2 DEF SoftwareReset, TypeOK
    <2> QED BY <1>2, <2>1, RestartType DEF SoftwareReset, TypeOK
  <1>3. CASE PowerLoss
    <2>1. losses' \in 0 .. MaxLosses BY <1>3, MainAssumption DEF PowerLoss, TypeOK
    <2>2. due' \subseteq Configs BY <1>3 DEF PowerLoss, TypeOK
    <2> QED BY <1>3, <2>1, <2>2, RestartType, ValueFacts DEF PowerLoss, TypeOK
  <1> QED BY <1>1, <1>2, <1>3, MainType, StoreType, CtlType DEF Next

\* main is at one of its awaits, past the start of the network only with
\* servers to get there, and every signal holds a value of its type, for any
\* configurations clients store and any losses of power.
THEOREM MainTypeCorrect == Spec => []TypeOK
  BY InitType, NextType, PTL DEF Spec

-----------------------------------------------------------------------------
(* The interface servers run on.  What is left to do of what main asked    *)
(* the controller, at each of main's awaits.                               *)

Select == ctl.at = "select" /\ control = NoSignals
Doing(i, c) == ctl.at = "reconfigure" /\ ctl.type = i /\ ctl.control = c

\* The station is asked for, being enabled, or enabled, or the radio failed.
StaStarts ==
  /\ status.Ap = NoSignal
  /\ \/ /\ ctl.at = "select" /\ control.Sta = "Enable" /\ control.Ap = NoSignal
        /\ ctl.mode = {} /\ status.Sta = NoSignal
     \/ /\ control = NoSignals /\ Doing("Sta", "Enable")
        /\ ctl.mode = {} /\ ctl.new = {"Sta"} /\ status.Sta = NoSignal
     \/ Select /\ ctl.mode = {} /\ status.Sta = NoSignal
     \/ Select /\ ctl.mode = {"Sta"} /\ radio.mode = {"Sta"}

StaOn == Select /\ ctl.mode = {"Sta"} /\ radio.mode = {"Sta"} /\ status.Ap = NoSignal

\* The station is to be disabled, being disabled, or disabled, or the radio
\* failed; or it was never enabled.
StaStops ==
  \/ ctl.at = "select" /\ control.Sta = "Disable" /\ ctl.mode = {"Sta"}
  \/ control.Sta = NoSignal /\ Doing("Sta", "Disable") /\ ctl.new = {}
  \/ ctl.at = "select" /\ control.Sta = NoSignal /\ (failed \/ ctl.mode = {})

ApOn == Select /\ "Ap" \in radio.mode /\ (failed \/ radio.mode = {"Ap"})

\* The access point is asked for, after the station, being enabled, or enabled,
\* or the radio failed.
ApStarts ==
  \/ control.Ap = "Enable" /\ status.Ap = NoSignal /\ StaStops
  \/ /\ control = NoSignals /\ Doing("Ap", "Enable") /\ status.Ap = NoSignal
     /\ "Ap" \in ctl.new /\ (failed \/ ctl.new = {"Ap"})
  \/ Select /\ status.Ap = NoSignal
  \/ ApOn

Starting ==
  /\ main = "sta_enable" => StaStarts
  /\ main \in {"link", "ip"} \/ server = "Sta" => StaOn
  /\ main = "sta_disable" => control.Ap = NoSignal /\ status.Ap = NoSignal /\ StaStops
  /\ main = "ap_enable" => ApStarts
  /\ server = "Ap" => ApOn

LEMMA StartingServed == TypeOK /\ Starting => ServedRuns
  BY DEF TypeOK, Starting, ServedRuns, StaOn, ApOn, Interfaces

LEMMA FreshStart ==
  ASSUME NEW c, main' = FirstWait(c), server' = "none", ctl' = NewCtl, control' = FirstControl(c),
         status' = NoSignals
  PROVE  Starting'
  <1>1. /\ ctl'.at = "select" /\ ctl'.mode = {} /\ status'.Sta = NoSignal /\ status'.Ap = NoSignal
    BY DEF NewCtl, NoSignals, Interfaces
  <1>2. CASE c.mode = "ApOnly"
    <2>1. main' = "ap_enable" BY <1>2 DEF FirstWait
    <2>2. control'.Ap = "Enable" /\ control'.Sta = NoSignal
      BY <1>2 DEF FirstControl, NoSignals, Interfaces
    <2> QED BY <1>1, <2>1, <2>2 DEF Starting, ApStarts, StaStops
  <1>3. CASE c.mode # "ApOnly"
    <2>1. main' = "sta_enable" BY <1>3 DEF FirstWait
    <2>2. control'.Sta = "Enable" /\ control'.Ap = NoSignal
      BY <1>3 DEF FirstControl, NoSignals, Interfaces
    <2> QED BY <1>1, <2>1, <2>2 DEF Starting, StaStarts
  <1> QED BY <1>2, <1>3

LEMMA SignalValues ==
  \A f \in Signals : f = NoSignals <=> f.Sta = NoSignal /\ f.Ap = NoSignal
  BY DEF Signals, NoSignals, Interfaces

LEMMA InterfaceSets == \A mode \in SUBSET Interfaces : mode \subseteq {"Sta", "Ap"}
  BY DEF Interfaces

\* Steps that leave the start alone: a status of the station, which only its
\* mode brings, and a failure more do not matter to it.
LEMMA StartKept ==
  ASSUME Starting, main' = main, server' = server, control' = control,
         status'.Ap = status.Ap, status'.Sta = status.Sta \/ "Sta" \in ctl.mode,
         ctl'.at = ctl.at, ctl'.mode = ctl.mode, ctl'.new = ctl.new, ctl'.type = ctl.type,
         ctl'.control = ctl.control, radio'.mode = radio.mode, failed => failed'
  PROVE  Starting'
  BY DEF Starting, StaStarts, StaOn, StaStops, ApStarts, ApOn, Select, Doing

LEMMA OthersStarting ==
  ASSUME TypeOK, Starting,
         \/ MainStore \/ MainReboot \/ AskReboot \/ LinkLost \/ CtlConnect \/ CtlDisconnected
         \/ \E c \in Configs : Update(c)
  PROVE  Starting'
  <1>1. CASE MainStore \/ AskReboot \/ \E c \in Configs : Update(c)
    <2>1. UNCHANGED <<mainVars, netVars>> /\ (failed => failed')
      BY <1>1 DEF MainStore, AskReboot, Update, Write, Fail
    <2> QED BY <2>1, StartKept DEF mainVars, netVars
  <1>2. CASE MainReboot
    <2>1. UNCHANGED <<server, netVars, failed>> /\ main' = "reboot"
      BY <1>2 DEF MainReboot, histVars
    <2> QED BY <2>1 DEF netVars, Starting, StaOn, ApOn, Select
  <1>3. CASE LinkLost
    <2>1. radio'.mode = radio.mode BY <1>3 DEF LinkLost, TypeOK
    <2> QED BY <1>3, <2>1, StartKept DEF LinkLost, mainVars, histVars
  <1>4. CASE CtlConnect \/ CtlDisconnected
    <2>1. /\ "Sta" \in ctl.mode
          /\ UNCHANGED <<mainVars, control, histVars>>
      BY <1>4 DEF CtlConnect, CtlDisconnected, StaRuns
    <2>2. status'.Ap = status.Ap BY <1>4 DEF CtlConnect, CtlDisconnected, TypeOK, Statuses, Interfaces
    <2>3. /\ ctl'.at = ctl.at /\ ctl'.mode = ctl.mode /\ ctl'.new = ctl.new
          /\ ctl'.type = ctl.type /\ ctl'.control = ctl.control
      BY <1>4 DEF CtlConnect, CtlDisconnected, TypeOK
    <2>4. radio'.mode = radio.mode BY <1>4 DEF CtlConnect, CtlDisconnected, TypeOK
    <2> QED BY <2>1, <2>2, <2>3, <2>4, StartKept DEF mainVars, histVars
  <1> QED BY <1>1, <1>2, <1>3, <1>4

LEMMA MainStarting == ASSUME TypeOK, Starting, MainStart PROVE Starting'
  <1>1. UNCHANGED <<ctl, radio, failed>>
    BY DEF MainStart, MainStaEnabled, MainLinkUp, MainGotIp, MainStaTimeout, MainStaDisabled,
           MainApEnabled, netVars, histVars
  <1>2. CASE MainStaEnabled
    <2>1. main = "sta_enable" /\ status.Sta # NoSignal /\ status'.Ap = status.Ap /\ control' = control
          /\ server' = server /\ main' \in {"link", "panic"}
      BY <1>2 DEF MainStaEnabled, Await, TypeOK, Statuses, Interfaces
    <2>2. StaOn /\ server = "none"
      BY <2>1 DEF Starting, StaStarts, StaOn, TypeOK
    <2> QED BY <1>1, <2>1, <2>2 DEF Starting, StaOn, Select
  <1>3. CASE MainLinkUp \/ MainGotIp
    <2>1. /\ main \in {"link", "ip"} /\ control' = control /\ status' = status
          /\ main' \in {"ip", "loop"} /\ server' \in {server, "Sta"}
      BY <1>3 DEF MainLinkUp, MainGotIp, netVars
    <2>2. StaOn /\ server = "none" BY <2>1 DEF Starting, TypeOK
    <2> QED BY <1>1, <2>1, <2>2 DEF Starting, StaOn, Select
  <1>4. CASE MainStaTimeout
    <2>1. /\ main \in {"link", "ip"} /\ control'.Sta = "Disable" /\ control'.Ap = control.Ap
          /\ status' = status /\ main' = "sta_disable" /\ server' = server
      BY <1>4 DEF MainStaTimeout, Disabled, TypeOK, Signals, Interfaces
    <2>2. StaOn /\ server = "none" BY <2>1 DEF Starting, TypeOK
    <2>3. control.Ap = NoSignal BY <2>2, SignalValues DEF StaOn, Select, TypeOK
    <2> QED BY <1>1, <2>1, <2>2, <2>3 DEF Starting, StaOn, Select, StaStops
  <1>5. CASE MainStaDisabled
    <2>1. /\ main = "sta_disable" /\ control'.Ap = "Enable" /\ control'.Sta = control.Sta
          /\ status'.Ap = status.Ap /\ main' = "ap_enable" /\ server' = server
      BY <1>5 DEF MainStaDisabled, Await, Enabled, TypeOK, Signals, Statuses, Interfaces
    <2>2. server = "none" BY <2>1 DEF TypeOK
    <2> QED BY <1>1, <2>1, <2>2 DEF Starting, ApStarts, StaStops, Doing
  <1>6. CASE MainApEnabled
    <2>1. /\ main = "ap_enable" /\ control' = control /\ status.Ap # NoSignal
          /\ main' \in {"loop", "panic"} /\ server' \in {"Ap", server}
      BY <1>6 DEF MainApEnabled, Await
    <2>2. ApOn /\ server = "none" BY <2>1 DEF Starting, ApStarts, TypeOK
    <2> QED BY <1>1, <2>1, <2>2 DEF Starting, ApOn, Select
  <1> QED BY <1>2, <1>3, <1>4, <1>5, <1>6 DEF MainStart

LEMMA ControlStarting ==
  ASSUME TypeOK, Starting, NEW i \in Interfaces, CtlControl(i) PROVE Starting'
  <1> DEFINE new == NewMode(ctl.mode, i, control[i])
  <1>1. /\ ctl.at = "select" /\ control[i] # NoSignal /\ (i = "Ap" => control.Sta = NoSignal)
        /\ UNCHANGED <<main, server, status, radio, failed>>
    BY DEF CtlControl, mainVars, histVars
  <1>2. \A j \in Interfaces : control'[j] = IF j = i THEN NoSignal ELSE control[j]
    BY DEF CtlControl, TypeOK, Signals
  <1>3. control \in Signals /\ control' \in Signals BY NextType DEF TypeOK, Next, Ctl
  <1>4. ~Select BY <1>1, <1>3, SignalValues DEF Select, Interfaces
  <1>5. server = "none" /\ main \in {"sta_enable", "sta_disable", "ap_enable", "panic"}
    BY <1>4 DEF Starting, StaOn, ApOn, TypeOK, Interfaces
  <1>6. ctl' = IF new = ctl.mode THEN ctl
               ELSE [ctl EXCEPT !.at = "reconfigure", !.new = new, !.type = i, !.control = control[i]]
    BY DEF CtlControl
  <1>7. new # ctl.mode => /\ ctl'.at = "reconfigure" /\ ctl'.mode = ctl.mode /\ ctl'.new = new
                          /\ ctl'.type = i /\ ctl'.control = control[i]
    BY <1>6 DEF TypeOK
  <1>8. (control.Sta = NoSignal \/ i = "Sta") /\ (control.Ap = NoSignal \/ i = "Ap")
        => control' = NoSignals
    BY <1>2, <1>3, SignalValues DEF Interfaces
  <1>9. CASE main = "sta_enable"
    <2>1. /\ control.Sta = "Enable" /\ control.Ap = NoSignal
          /\ ctl.mode = {} /\ status.Sta = NoSignal /\ status.Ap = NoSignal
      BY <1>1, <1>4, <1>9 DEF Starting, StaStarts, Doing
    <2>2. i = "Sta" BY <1>1, <2>1 DEF Interfaces
    <2>3. new = {"Sta"} BY <2>1, <2>2 DEF NewMode
    <2> QED BY <1>1, <1>5, <1>7, <1>8, <1>9, <2>1, <2>2, <2>3 DEF Starting, StaStarts, Doing
  <1>10. ASSUME control.Sta # NoSignal, StaStops
         PROVE  i = "Sta" /\ StaStops' /\ control'.Ap = control.Ap
    <2>1. control.Sta = "Disable" /\ ctl.mode = {"Sta"} BY <1>10 DEF StaStops
    <2>2. i = "Sta" BY <1>1, <1>10 DEF Interfaces
    <2>3. new = {} BY <2>1, <2>2 DEF NewMode, NoSignal
    <2>4. control'.Sta = NoSignal /\ control'.Ap = control.Ap BY <1>2, <2>2 DEF Interfaces
    <2> QED BY <1>7, <2>1, <2>2, <2>3, <2>4 DEF StaStops, Doing
  <1>11. CASE main = "sta_disable"
    <2>1. control.Ap = NoSignal /\ status.Ap = NoSignal /\ StaStops BY <1>11 DEF Starting
    <2>2. control.Sta # NoSignal BY <1>1, <2>1 DEF Interfaces
    <2> QED BY <1>1, <1>5, <1>10, <1>11, <2>1, <2>2 DEF Starting
  <1>12. CASE main = "ap_enable"
    <2>1. control.Ap = "Enable" /\ status.Ap = NoSignal /\ StaStops
      <3>1. control # NoSignals BY <1>1, <1>3, SignalValues DEF Interfaces
      <3> QED BY <1>4, <1>12, <3>1 DEF Starting, ApStarts, ApOn
    <2>2. CASE control.Sta # NoSignal
      BY <1>1, <1>5, <1>10, <1>12, <2>1, <2>2 DEF Starting, ApStarts
    <2>3. CASE control.Sta = NoSignal
      <3>1. i = "Ap" /\ control' = NoSignals BY <1>1, <1>8, <2>3 DEF Interfaces
      <3>2. failed \/ ctl.mode = {} BY <1>1, <2>1, <2>3 DEF StaStops, Doing, NoSignal
      <3>3. new = ctl.mode \cup {"Ap"} BY <2>1, <3>1 DEF NewMode
      <3>4. CASE new = ctl.mode
        BY <1>1, <1>5, <1>6, <1>12, <2>1, <3>1, <3>4 DEF Starting, ApStarts, Select
      <3>5. CASE new # ctl.mode
        BY <1>1, <1>5, <1>7, <1>12, <2>1, <3>1, <3>2, <3>3, <3>5 DEF Starting, ApStarts, Doing
      <3> QED BY <3>4, <3>5
    <2> QED BY <2>2, <2>3
  <1> QED BY <1>1, <1>5, <1>9, <1>11, <1>12 DEF Starting

LEMMA ReconfigureStarting == ASSUME TypeOK, Starting, CtlReconfigure PROVE Starting'
  <1>1. /\ ctl.at = "reconfigure"
        /\ UNCHANGED <<main, server, control>>
    BY DEF CtlReconfigure, mainVars
  <1>2. \/ /\ radio'.mode = ctl.new /\ ctl' = CtlSelect(ctl.new) /\ status' = Applied
           /\ failed' = failed
        \/ failed' = TRUE /\ status' = status /\ ctl' = CtlSelect(ctl.mode)
    BY DEF CtlReconfigure, Fail, Radio
  <1>3. \A mode : CtlSelect(mode).at = "select" /\ CtlSelect(mode).mode = mode
    BY DEF CtlSelect, TypeOK
  <1>4. ctl.type = "Sta" => Applied.Ap = status.Ap
    BY DEF Applied, TypeOK, Statuses, Interfaces
  <1>5. server = "none" /\ main \in {"sta_enable", "sta_disable", "ap_enable", "panic"}
    BY <1>1 DEF Starting, StaOn, ApOn, Select, TypeOK, Interfaces
  <1>6. CASE main = "sta_enable"
    <2>1. /\ control = NoSignals /\ Doing("Sta", "Enable") /\ status.Ap = NoSignal
          /\ ctl.mode = {} /\ ctl.new = {"Sta"} /\ status.Sta = NoSignal
      BY <1>1, <1>6 DEF Starting, StaStarts, Select
    <2> QED BY <1>1, <1>2, <1>3, <1>4, <1>5, <1>6, <2>1 DEF Starting, StaStarts, Select, Doing
  <1>7. ASSUME StaStops PROVE StaStops' /\ (status.Ap = NoSignal => status'.Ap = NoSignal)
    <2>1. control.Sta = NoSignal /\ Doing("Sta", "Disable") /\ ctl.new = {}
      BY <1>1, <1>7 DEF StaStops
    <2> QED BY <1>1, <1>2, <1>3, <1>4, <2>1 DEF StaStops, Doing
  <1>8. CASE main = "sta_disable" BY <1>1, <1>5, <1>7, <1>8 DEF Starting
  <1>9. CASE main = "ap_enable"
    <2>1. CASE control.Ap = "Enable" /\ status.Ap = NoSignal /\ StaStops
      BY <1>1, <1>5, <1>7, <1>9, <2>1 DEF Starting, ApStarts
    <2>2. CASE /\ control = NoSignals /\ status.Ap = NoSignal
               /\ "Ap" \in ctl.new /\ (failed \/ ctl.new = {"Ap"})
      BY <1>1, <1>2, <1>3, <1>5, <1>9, <2>2 DEF Starting, ApStarts, ApOn, Select
    <2> QED BY <1>1, <1>9, <2>1, <2>2 DEF Starting, ApStarts, ApOn, Select
  <1> QED BY <1>1, <1>5, <1>6, <1>8, <1>9 DEF Starting

LEMMA InitStarting == Init => Starting
  <1> SUFFICES ASSUME Init PROVE Starting OBVIOUS
  <1>1. main = "sta_enable" /\ server = "none" BY DEF Init, FirstWait, Default
  <1>2. control.Sta = "Enable" /\ control.Ap = NoSignal
    BY DEF Init, FirstControl, Default, NoSignals, Interfaces
  <1>3. status.Sta = NoSignal /\ status.Ap = NoSignal /\ ctl.at = "select" /\ ctl.mode = {}
    BY DEF Init, NoSignals, Interfaces, NewCtl
  <1> QED BY <1>1, <1>2, <1>3 DEF Starting, StaStarts

LEMMA NextStarting == TypeOK /\ Starting /\ [Next]_vars => Starting'
  <1> SUFFICES ASSUME TypeOK, Starting, [Next]_vars PROVE Starting' OBVIOUS
  <1>1. CASE UNCHANGED vars
    BY <1>1, StartKept DEF vars, mainVars, netVars, histVars
  <1>2. ASSUME NEW f, Restart(f) PROVE Starting' BY <1>2, FreshStart DEF Restart
  <1>3. CASE SoftwareReset \/ PowerLoss BY <1>2, <1>3 DEF SoftwareReset, PowerLoss
  <1> QED BY <1>1, <1>3, MainStarting, OthersStarting, ControlStarting, ReconfigureStarting
          DEF Next, Ctl

\* Servers run on an interface the radio runs, and once nothing is left to do
\* and nothing failed on that one alone, whatever stale status ended a wait of
\* main (main.rs) and whichever steps of the controller task (net.rs) failed.
THEOREM ServersAreServed == Spec => []ServedRuns
  BY InitType, NextType, InitStarting, NextStarting, StartingServed, PTL DEF Spec

-----------------------------------------------------------------------------
(* What a reboot starts with. *)

\* What is accepted is in the flash, or to be written, or the flash failed; and
\* once a reboot is asked for, the newest is one it may start with.
Keeps ==
  /\ store \/ failed \/ flash = Partition(conf)
  /\ kept # {} => conf \in kept
  /\ reboot => kept # {}
  /\ main = "reboot" => kept # {} /\ (failed \/ (flash.valid /\ flash.conf \in kept))

LEMMA InitKeeps == Init => Keeps
  BY DEF Init, Keeps, FirstWait

LEMMA NextKeeps == TypeOK /\ Keeps /\ [Next]_vars => Keeps'
  <1> SUFFICES ASSUME TypeOK, Keeps, [Next]_vars PROVE Keeps' OBVIOUS
  <1>1. CASE UNCHANGED vars
    BY <1>1 DEF vars, confVars, mainVars, histVars, Keeps
  <1>2. ASSUME UNCHANGED <<confVars, reboot, kept>>, failed => failed', main' # "reboot" \/ main' = main
        PROVE  Keeps'
    BY <1>2 DEF Keeps, confVars
  <1>3. CASE MainStart
    <2>1. UNCHANGED <<confVars, reboot, kept, failed>> /\ main' # "reboot"
      BY <1>3 DEF MainStart, MainStaEnabled, MainLinkUp, MainGotIp, MainStaTimeout,
                  MainStaDisabled, MainApEnabled, histVars
    <2> QED BY <1>2, <2>1
  <1>4. CASE Ctl \/ LinkLost
    <2>1. UNCHANGED <<confVars, reboot, kept, main>>
      BY <1>4 DEF Ctl, CtlControl, CtlReconfigure, CtlConnect, CtlDisconnected, LinkLost,
                  mainVars, histVars
    <2>2. failed => failed'
      <3>1. CASE CtlReconfigure BY <3>1 DEF CtlReconfigure, Fail
      <3>2. CASE ~CtlReconfigure
        BY <1>4, <3>2 DEF Ctl, CtlControl, CtlConnect, CtlDisconnected, LinkLost, histVars
      <3> QED BY <3>1, <3>2
    <2> QED BY <1>2, <2>1, <2>2
  <1>5. CASE MainStore BY <1>5 DEF MainStore, Write, Fail, Keeps, mainVars
  <1>6. CASE MainReboot BY <1>6, ValueFacts DEF MainReboot, Keeps, confVars, histVars, TypeOK
  <1>7. CASE AskReboot BY <1>7 DEF AskReboot, Keeps, confVars, mainVars
  <1>8. ASSUME NEW c \in Configs, Update(c) PROVE Keeps'
    BY <1>8 DEF Update, Keeps, mainVars
  <1>9. ASSUME NEW f, Restart(f) PROVE Keeps'
    <2>1. /\ main' # "reboot" /\ reboot' = FALSE /\ kept' = {}
          /\ failed' \/ flash' = Partition(conf')
      BY <1>9 DEF Restart, FirstWait
    <2> QED BY <2>1 DEF Keeps
  <1>10. CASE SoftwareReset \/ PowerLoss BY <1>9, <1>10 DEF SoftwareReset, PowerLoss
  <1> QED BY <1>1, <1>3, <1>4, <1>5, <1>6, <1>7, <1>8, <1>10 DEF Next

LEMMA RestartKeeps ==
  TypeOK /\ Keeps /\ [Next]_vars =>
    [main = "reboot" /\ main' # "reboot" => failed \/ failed' \/ conf' \in kept]_vars
  <1> SUFFICES ASSUME TypeOK, Keeps, Next, main = "reboot", main' # "reboot"
               PROVE  failed \/ failed' \/ conf' \in kept
    OBVIOUS
  <1>1. SoftwareReset \/ PowerLoss
    BY DEF Next, MainStart, MainStaEnabled, MainLinkUp, MainGotIp, MainStaTimeout, MainStaDisabled,
           MainApEnabled, Await, MainStore, MainReboot, Ctl, CtlControl, CtlReconfigure, CtlConnect,
           CtlDisconnected, LinkLost, Update, AskReboot, mainVars
  <1>2. Restart(flash) BY <1>1 DEF SoftwareReset, PowerLoss
  <1>3. PICK read \in BOOLEAN : conf' = (IF read /\ flash.valid THEN flash.conf ELSE Default)
                                /\ (~read => failed')
    BY <1>2 DEF Restart
  <1> QED BY <1>3 DEF Keeps

\* The configuration a client's request stored before the reboot it asked for,
\* or a later one, is the one airfrog starts with, for any failures of other
\* parts and wherever power is lost; only a failure of the flash loses it.
THEOREM RebootsKeepUpdates == Spec => RebootKeepsUpdate
  BY InitType, NextType, InitKeeps, NextKeeps, RestartKeeps, PTL DEF Spec, RebootKeepsUpdate
=============================================================================
