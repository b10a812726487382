---------------------------- MODULE ServiceProofs ----------------------------
(***************************************************************************)
(* The daemon restores the saved settings, for any set of versions and any *)
(* number of reloads, reboots, crashes and choices of the user.            *)
(*                                                                         *)
(* SettingsRestored speaks of a daemon that has reached its receive loop.  *)
(* The invariant below follows it there: which settings it has passed, and *)
(* that the number it holds for the one it is at is still the saved one.   *)
(***************************************************************************)
EXTENDS Service, TLAPS

Saved(k) == saved[k] \notin {None, Empty}

\* The daemon holds a live socket only after connecting to a control that is
\* still registered, and the registration follows procfs_start and procfs_stop.
LinkOK ==
    /\ sock = "live" => bridge /\ daemon \in {"read", "write", "serve"}
    /\ bridge => kext \in {"control", "linux", "up", "unregistered"}
    /\ kext = "linux" => oids = {"linux"}
    /\ kext = "up" => oids = Settings
    /\ kext \notin {"linux", "up"} => oids = {}

\* The values that move between the files, the daemon and the extension.
ValuesOK ==
    /\ next \in {1, 2}
    /\ setting \in [Settings -> Nat]
    /\ saved \in [Settings -> {None, Empty} \union Nat]
    /\ saved["linux"] \in {None, Empty, 0, 1}
    /\ val \in Nat
    /\ choice[1] \in Settings
    /\ choice[2] \in Nat
    /\ choice[1] = "linux" => choice[2] \in {0, 1}

\* apply_persisted_int has returned for setting number i.
Passed(i) == daemon = "serve" \/ i < next

\* A setting that was passed has its saved value, unless the extension is
\* already being stopped.
PassedRestored ==
    sock = "live" =>
        \A i \in {1, 2} :
            Passed(i) /\ Order[i] \notin touched /\ Saved(Order[i]) =>
                \/ Order[i] \in oids /\ setting[Order[i]] = saved[Order[i]]
                \/ kext = "unregistered"

\* The number read from the file is still the one in the file.
ReadFresh ==
    sock = "live" /\ daemon = "write" /\ Order[next] \notin touched /\ Saved(Order[next])
        => val = saved[Order[next]]

IInv == LinkOK /\ ValuesOK /\ PassedRestored /\ ReadFresh

\* The variables that IInv reads.
settingVars == <<kext, bridge, oids, setting, daemon, sock, next, val, saved, choice, touched>>

\* The two settings, by name and by number.
LEMMA OrderFacts ==
    /\ Order[1] = "linux" /\ Order[2] = "linux_version" /\ Len(Order) = 2
    /\ \A i \in {1, 2} : Order[i] \in Settings
    /\ \A k \in Settings : \E i \in {1, 2} : k = Order[i]
BY DEF Order, Settings

\* A daemon in its receive loop has passed both settings.
LEMMA RestoredFromIInv == IInv => SettingsRestored
<1> HAVE IInv
<1> SUFFICES ASSUME daemon = "serve", sock = "live",
                    NEW k \in oids \ touched, k \in Settings, Saved(k)
             PROVE  setting[k] = saved[k]
  <2>1. oids \subseteq Settings
    <3>1. oids = {} \/ oids = {"linux"} \/ oids = Settings
      BY DEF IInv, LinkOK
    <3> QED
      BY <3>1 DEF Settings
  <2> QED
    BY <2>1 DEF SettingsRestored, Saved
<1>1. PICK i \in {1, 2} : k = Order[i]
  BY OrderFacts
<1>2. kext = "unregistered" \/ setting[k] = saved[k]
  BY <1>1 DEF IInv, PassedRestored, Passed
<1> QED
  BY <1>2 DEF IInv, LinkOK

\* Nothing is loaded or connected when the machine starts.
LEMMA InitIInv == Init => IInv
<1> SUFFICES ASSUME Init PROVE IInv
  OBVIOUS
<1>1. LinkOK
  BY DEF Init, LinkOK
<1>2. ValuesOK
  BY DEF Init, ValuesOK, Settings
<1> QED
  BY <1>1, <1>2 DEF Init, IInv, PassedRestored, ReadFresh

\* Without a live socket only LinkOK and ValuesOK say anything.
LEMMA NotLive == LinkOK' /\ ValuesOK' /\ sock' # "live" => IInv'
BY DEF IInv, PassedRestored, ReadFresh

\* Steps that change nothing the invariant reads.
LEMMA OtherIInv == IInv /\ UNCHANGED settingVars => IInv'
BY DEF settingVars, IInv, LinkOK, ValuesOK, PassedRestored, ReadFresh, Passed, Saved

\* procfs_start finds no control registered: no socket is live.
LEMMA BeginStartIInv ==
    IInv /\ BeginStart /\ sock' = sock /\ daemon' = daemon
         /\ UNCHANGED <<next, val, saved, choice>> => IInv'
<1> SUFFICES ASSUME IInv, BeginStart, sock' = sock, daemon' = daemon,
                    UNCHANGED <<next, val, saved, choice>>
             PROVE  IInv'
  OBVIOUS
<1>1. sock # "live" /\ ~bridge
  BY DEF IInv, LinkOK, BeginStart
<1>2. LinkOK'
  BY <1>1 DEF IInv, LinkOK, BeginStart
<1>3. ValuesOK'
  BY DEF IInv, ValuesOK, BeginStart
<1> QED
  BY <1>1, <1>2, <1>3, NotLive

\* procfs_stop takes the sysctls away; what was restored may go with them.
LEMMA BeginStopIInv ==
    IInv /\ BeginStop /\ UNCHANGED <<daemon, sock, next, val, saved, choice>> => IInv'
<1> SUFFICES ASSUME IInv, BeginStop, UNCHANGED <<daemon, sock, next, val, saved, choice>>
             PROVE  IInv'
  OBVIOUS
<1>1. LinkOK'
  BY DEF IInv, LinkOK, BeginStop, Loaded
<1>2. ValuesOK'
  BY DEF IInv, ValuesOK, BeginStop
<1>3. PassedRestored'
  BY DEF PassedRestored, BeginStop
<1>4. ReadFresh'
  BY DEF IInv, ReadFresh, BeginStop, Saved
<1> QED
  BY <1>1, <1>2, <1>3, <1>4 DEF IInv

\* The daemon loses its socket with its life; the extension may go too (a reboot).
LEMMA DeadIInv ==
    ASSUME IInv, Dead, UNCHANGED <<saved, choice>>,
           \/ UNCHANGED <<kext, bridge, oids, setting>>
           \/ /\ kext' = "out" /\ bridge' = FALSE /\ oids' = {}
              /\ setting' = [k \in Settings |-> 0]
    PROVE  IInv'
<1>1. LinkOK'
  BY DEF IInv, LinkOK, Dead
<1>2. ValuesOK'
  BY DEF IInv, ValuesOK, Dead
<1> QED
  BY <1>1, <1>2, NotLive DEF Dead

\* The steps of procfs_start and procfs_stop in the kernel: a sysctl appears
\* before the daemon can have passed it, or the daemon passed it unsaved.
LEMMA KernelIInv == IInv /\ Kernel => IInv'
<1> SUFFICES ASSUME IInv, Kernel PROVE IInv'
  OBVIOUS
<1>1. CASE StartControl /\ UNCHANGED <<daemonVars, fileVars, guiVars, touched>>
  <2>1. sock # "live" \/ sock' # "live"
    BY <1>1 DEF IInv, LinkOK, StartControl
  <2>2. sock' # "live"
    BY <1>1, <2>1 DEF daemonVars
  <2>3. LinkOK'
    BY <1>1, <2>2 DEF IInv, LinkOK, StartControl
  <2>4. ValuesOK'
    BY <1>1 DEF IInv, ValuesOK, StartControl, daemonVars, fileVars, guiVars
  <2> QED
    BY <2>2, <2>3, <2>4, NotLive
<1>2. CASE StartSysctl /\ UNCHANGED <<daemonVars, fileVars, guiVars, touched>>
  <2>1. oids \subseteq oids' /\ kext # "unregistered"
    BY <1>2 DEF StartSysctl
  <2>2. LinkOK'
    BY <1>2, OrderFacts DEF IInv, LinkOK, StartSysctl, daemonVars, Settings
  <2>3. ValuesOK'
    BY <1>2 DEF IInv, ValuesOK, StartSysctl, daemonVars, fileVars, guiVars
  <2>4. PassedRestored'
    BY <1>2, <2>1
    DEF IInv, PassedRestored, Passed, Saved, StartSysctl, daemonVars, fileVars
  <2>5. ReadFresh'
    BY <1>2 DEF IInv, ReadFresh, Saved, StartSysctl, daemonVars, fileVars
  <2> QED
    BY <2>2, <2>3, <2>4, <2>5 DEF IInv
<1>3. CASE StopControl /\ UNCHANGED <<daemon, next, val, fileVars, guiVars, touched>>
  <2>1. sock' # "live"
    BY <1>3 DEF StopControl
  <2>2. LinkOK'
    BY <1>3, <2>1 DEF IInv, LinkOK, StopControl
  <2>3. ValuesOK'
    BY <1>3 DEF IInv, ValuesOK, StopControl, fileVars, guiVars
  <2> QED
    BY <2>1, <2>2, <2>3, NotLive
<1>4. CASE StopRemove /\ UNCHANGED <<daemonVars, fileVars, guiVars, touched>>
  <2>1. sock # "live" /\ ~bridge
    BY <1>4 DEF IInv, LinkOK, StopRemove
  <2>2. LinkOK'
    BY <1>4, <2>1 DEF IInv, LinkOK, StopRemove, daemonVars
  <2>3. ValuesOK'
    BY <1>4 DEF IInv, ValuesOK, StopRemove, daemonVars, fileVars, guiVars
  <2> QED
    BY <1>4, <2>1, <2>2, <2>3, NotLive DEF daemonVars
<1> QED
  BY <1>1, <1>2, <1>3, <1>4 DEF Kernel

\* apply_persisted_int reads the file: the number it takes is the saved one, the
\* clamp of procfs.linux included.
LEMMA ReadSavedIInv == IInv /\ ReadSaved /\ UNCHANGED <<fileVars, guiVars>> => IInv'
<1> SUFFICES ASSUME IInv, ReadSaved, UNCHANGED <<fileVars, guiVars>> PROVE IInv'
  OBVIOUS
<1>0. /\ daemon = "read" /\ next \in {1, 2}
      /\ UNCHANGED <<kext, bridge, oids, setting, sock, saved, choice, touched>>
  BY DEF IInv, ValuesOK, ReadSaved, kextVars, fileVars, guiVars
<1>1. CASE ~Saved(Order[next])
  <2>1. Advance /\ val' = val
    BY <1>1 DEF ReadSaved, Saved
  <2>2. /\ daemon' \in {"read", "serve"}
        /\ next' \in {1, 2}
        /\ \A i \in {1, 2} : Passed(i)' => Passed(i) \/ i = next
    BY <1>0, <2>1, OrderFacts DEF Advance, Passed
  <2>3. LinkOK'
    BY <1>0, <2>2 DEF IInv, LinkOK
  <2>4. ValuesOK'
    BY <1>0, <2>1, <2>2 DEF IInv, ValuesOK
  <2>5. PassedRestored'
    BY <1>0, <1>1, <2>2 DEF IInv, PassedRestored, Saved
  <2>6. ReadFresh'
    BY <2>2 DEF ReadFresh
  <2> QED
    BY <2>3, <2>4, <2>5, <2>6 DEF IInv
<1>2. CASE Saved(Order[next])
  <2>1. /\ daemon' = "write" /\ next' = next
        /\ val' = Clamp(Order[next], saved[Order[next]])
    BY <1>2 DEF ReadSaved, Saved
  <2>2. saved[Order[next]] \in Nat /\ val' = saved[Order[next]]
    <3>1. Order[next] \in Settings
      BY <1>0, OrderFacts
    <3>2. saved[Order[next]] \in Nat
      BY <1>2, <3>1 DEF IInv, ValuesOK, Saved
    <3>3. Order[next] = "linux" => saved[Order[next]] \in {0, 1}
      BY <1>2 DEF IInv, ValuesOK, Saved
    <3> QED
      BY <2>1, <3>2, <3>3 DEF Clamp
  <2>3. LinkOK'
    BY <1>0, <2>1 DEF IInv, LinkOK
  <2>4. ValuesOK'
    BY <1>0, <2>1, <2>2 DEF IInv, ValuesOK
  <2>5. PassedRestored'
    BY <1>0, <2>1 DEF IInv, PassedRestored, Passed, Saved
  <2>6. ReadFresh'
    BY <1>0, <2>1, <2>2 DEF ReadFresh
  <2> QED
    BY <2>3, <2>4, <2>5, <2>6 DEF IInv
<1> QED
  BY <1>1, <1>2

\* apply_persisted_int writes the sysctl: the setting is passed with its saved value.
LEMMA WriteSettingIInv == IInv /\ WriteSetting /\ UNCHANGED <<fileVars, guiVars>> => IInv'
<1> SUFFICES ASSUME IInv, WriteSetting, UNCHANGED <<fileVars, guiVars>> PROVE IInv'
  OBVIOUS
<1>0. /\ daemon = "write" /\ next \in {1, 2} /\ Order[next] \in Settings
      /\ Order[next] \in oids
      /\ setting' = [setting EXCEPT ![Order[next]] = val]
      /\ UNCHANGED <<kext, bridge, oids, sock, val, saved, choice, touched>>
  BY OrderFacts DEF IInv, ValuesOK, WriteSetting, fileVars, guiVars
<1>1. /\ daemon' \in {"read", "serve"}
      /\ next' \in {1, 2}
      /\ \A i \in {1, 2} : Passed(i)' => Passed(i) \/ i = next
  BY <1>0, OrderFacts DEF WriteSetting, Advance, Passed
<1>2. LinkOK'
  BY <1>0, <1>1 DEF IInv, LinkOK
<1>3. ValuesOK'
  BY <1>0, <1>1 DEF IInv, ValuesOK
<1>4. PassedRestored'
  <2> SUFFICES ASSUME sock = "live", NEW i \in {1, 2},
                      Passed(i)', Order[i] \notin touched, Saved(Order[i])
               PROVE  \/ Order[i] \in oids /\ setting'[Order[i]] = saved[Order[i]]
                      \/ kext = "unregistered"
    BY <1>0 DEF PassedRestored, Saved
  <2>1. setting \in [Settings -> Nat] /\ Order[i] \in Settings
    BY OrderFacts DEF IInv, ValuesOK
  <2>2. CASE i = next
    <3>1. val = saved[Order[next]]
      BY <1>0, <2>2 DEF IInv, ReadFresh
    <3> QED
      BY <1>0, <2>1, <2>2, <3>1
  <2>3. CASE i # next
    <3>1. Order[i] # Order[next]
      BY <1>0, <2>3, OrderFacts
    <3>2. Passed(i)
      BY <1>1, <2>3
    <3> QED
      BY <1>0, <2>1, <3>1, <3>2 DEF IInv, PassedRestored
  <2> QED
    BY <2>2, <2>3
<1>5. ReadFresh'
  BY <1>1 DEF ReadFresh
<1> QED
  BY <1>2, <1>3, <1>4, <1>5 DEF IInv

\* The tries ran out on a live socket: the extension is being stopped.
LEMMA GiveUpIInv == IInv /\ GiveUp /\ UNCHANGED <<fileVars, guiVars>> => IInv'
<1> SUFFICES ASSUME IInv, GiveUp, UNCHANGED <<fileVars, guiVars>> PROVE IInv'
  OBVIOUS
<1>0. /\ daemon = "write" /\ next \in {1, 2} /\ Order[next] \in Settings
      /\ Order[next] \notin oids /\ kext \notin Starting
      /\ UNCHANGED <<kext, bridge, oids, setting, sock, val, saved, choice, touched>>
  BY OrderFacts DEF IInv, ValuesOK, GiveUp, kextVars, fileVars, guiVars
<1>1. daemon' \in {"read", "serve"} /\ next' \in {1, 2}
  BY <1>0, OrderFacts DEF GiveUp, Advance
<1>2. sock = "live" => kext = "unregistered"
  BY <1>0 DEF IInv, LinkOK, Starting
<1>3. LinkOK'
  BY <1>0, <1>1 DEF IInv, LinkOK
<1>4. ValuesOK'
  BY <1>0, <1>1 DEF IInv, ValuesOK
<1>5. PassedRestored'
  BY <1>0, <1>2 DEF PassedRestored
<1>6. ReadFresh'
  BY <1>1 DEF ReadFresh
<1> QED
  BY <1>3, <1>4, <1>5, <1>6 DEF IInv

\* The main loop of the daemon: it passes a setting with the saved number written,
\* with nothing saved, or because the extension is being stopped.
LEMMA MainIInv == IInv /\ Main => IInv'
<1> SUFFICES ASSUME IInv, Main PROVE IInv'
  OBVIOUS
<1>0. UNCHANGED <<fileVars, guiVars>>
  BY DEF Main
<1>1. CASE Restart \/ Bootstrapped
  <2>1. sock # "live" /\ sock' = sock
    BY <1>1 DEF IInv, LinkOK, Restart, Bootstrapped
  <2>2. LinkOK'
    BY <1>1, <2>1 DEF IInv, LinkOK, Restart, Bootstrapped, kextVars
  <2>3. ValuesOK'
    BY <1>0, <1>1 DEF IInv, ValuesOK, Restart, Bootstrapped, kextVars, fileVars, guiVars
  <2> QED
    BY <2>1, <2>2, <2>3, NotLive
<1>2. CASE Bootstrap
  <2>1. sock # "live" /\ sock' = sock /\ UNCHANGED <<next, val>>
    BY <1>2 DEF IInv, LinkOK, Bootstrap
  <2>2. CASE BeginStart
    <3>1. LinkOK'
      BY <2>1, <2>2 DEF IInv, LinkOK, BeginStart
    <3>2. ValuesOK'
      BY <1>0, <2>1, <2>2 DEF IInv, ValuesOK, BeginStart, fileVars, guiVars
    <3> QED
      BY <2>1, <3>1, <3>2, NotLive
  <2>3. CASE UNCHANGED <<kextVars, touched>>
    <3>1. LinkOK'
      BY <2>1, <2>3 DEF IInv, LinkOK, kextVars
    <3>2. ValuesOK'
      BY <1>0, <2>1, <2>3 DEF IInv, ValuesOK, kextVars, fileVars, guiVars
    <3> QED
      BY <2>1, <3>1, <3>2, NotLive
  <2> QED
    BY <1>2, <2>2, <2>3 DEF Bootstrap
<1>3. CASE Connect
  <2>1. LinkOK'
    BY <1>3 DEF IInv, LinkOK, Connect, kextVars
  <2>2. ValuesOK'
    BY <1>0, <1>3 DEF IInv, ValuesOK, Connect, kextVars, fileVars, guiVars
  <2>3. PassedRestored' /\ ReadFresh'
    BY <1>3 DEF PassedRestored, Passed, ReadFresh, Connect
  <2> QED
    BY <2>1, <2>2, <2>3 DEF IInv
<1>4. CASE ReadSaved
  BY <1>4, ReadSavedIInv, <1>0
<1>5. CASE WriteSetting
  BY <1>5, WriteSettingIInv, <1>0
<1>6. CASE GiveUp
  BY <1>6, GiveUpIInv, <1>0
<1>7. CASE RecvFails
  <2>1. LinkOK'
    BY <1>7 DEF IInv, LinkOK, RecvFails, kextVars
  <2>2. ValuesOK'
    BY <1>0, <1>7 DEF IInv, ValuesOK, RecvFails, kextVars, fileVars, guiVars
  <2> QED
    BY <1>7, <2>1, <2>2, NotLive DEF RecvFails
<1>8. CASE RecvShort
  <2>1. UNCHANGED settingVars
    BY <1>0, <1>8 DEF RecvShort, settingVars, kextVars, fileVars, guiVars
  <2> QED
    BY <2>1, OtherIInv
<1> QED
  BY <1>1, <1>2, <1>3, <1>4, <1>5, <1>6, <1>7, <1>8 DEF Main

\* The application changes a setting or its file and is remembered for it.
LEMMA GuiIInv ==
    IInv /\ (Truncate \/ Save \/ \E k \in Settings : \E v \in Values(k) : SetLive(k, v))
        => IInv'
<1> SUFFICES ASSUME IInv,
                    Truncate \/ Save \/ \E k \in Settings : \E v \in Values(k) : SetLive(k, v)
             PROVE  IInv'
  OBVIOUS
<1>1. CASE Truncate \/ Save
  <2>1. PICK c \in {Empty, choice[2]} :
            /\ saved' = [saved EXCEPT ![choice[1]] = c]
            /\ touched' = touched \union {choice[1]}
            /\ UNCHANGED <<kextVars, daemonVars, choice>>
    BY <1>1 DEF Truncate, Save, SaveTo
  <2>2. LinkOK'
    BY <2>1 DEF IInv, LinkOK, kextVars, daemonVars
  <2>3. ValuesOK'
    BY <2>1 DEF IInv, ValuesOK, kextVars, daemonVars, Settings
  <2>4. \A k \in Settings : k \notin touched' => k \notin touched /\ saved'[k] = saved[k]
    BY <2>1 DEF IInv, ValuesOK
  <2>5. PassedRestored'
    BY <2>1, <2>4, OrderFacts
    DEF IInv, PassedRestored, Passed, Saved, kextVars, daemonVars
  <2>6. ReadFresh'
    BY <2>1, <2>4, OrderFacts DEF IInv, ValuesOK, ReadFresh, Saved, kextVars, daemonVars
  <2> QED
    BY <2>2, <2>3, <2>5, <2>6 DEF IInv
<1>2. CASE \E k \in Settings : \E v \in Values(k) : SetLive(k, v)
  <2>0. PICK k \in Settings : \E v \in Values(k) : SetLive(k, v)
    BY <1>2
  <2>1. PICK v \in Values(k) : SetLive(k, v)
    BY <2>0
  <2>2. v \in Nat /\ (k = "linux" => v \in {0, 1})
    BY VersionsAssumption DEF Values
  <2>3. /\ setting' = [setting EXCEPT ![k] = v]
        /\ choice' = <<k, v>>
        /\ touched' = touched \union {k}
        /\ UNCHANGED <<kext, bridge, oids, daemon, sock, next, val, saved>>
    BY <2>1 DEF SetLive, daemonVars, fileVars
  <2>4. LinkOK'
    BY <2>3 DEF IInv, LinkOK
  <2>5. ValuesOK'
    BY <2>2, <2>3 DEF IInv, ValuesOK
  <2>6. \A j \in Settings : j \notin touched' => j \notin touched /\ setting'[j] = setting[j]
    BY <2>3 DEF IInv, ValuesOK
  <2>7. PassedRestored'
    BY <2>3, <2>6, OrderFacts DEF IInv, PassedRestored, Passed, Saved
  <2>8. ReadFresh'
    BY <2>3, OrderFacts DEF IInv, ReadFresh, Saved
  <2> QED
    BY <2>4, <2>5, <2>7, <2>8 DEF IInv
<1> QED
  BY <1>1, <1>2

\* The operator, the machine and the uninstaller.
LEMMA OperatorIInv ==
    IInv /\ (Load \/ Unload \/ ToggleMount \/ ToggleDaemon \/ Crash \/ Reboot \/ Panic
             \/ Uninstall)
        => IInv'
<1> SUFFICES ASSUME IInv, Load \/ Unload \/ ToggleMount \/ ToggleDaemon \/ Crash \/ Reboot
                          \/ Panic \/ Uninstall
             PROVE  IInv'
  OBVIOUS
<1>1. CASE Load
  BY <1>1, BeginStartIInv DEF Load, Change, daemonVars, fileVars, guiVars
<1>2. CASE Unload
  BY <1>2, BeginStopIInv DEF Unload, Change, daemonVars, fileVars, guiVars
<1>3. CASE ToggleMount \/ UnmountAll \/ Unloaded
  <2>1. UNCHANGED settingVars
    BY <1>3 DEF ToggleMount, UnmountAll, Unloaded, Change, settingVars, kextVars,
                daemonVars, fileVars, guiVars
  <2> QED
    BY <2>1, OtherIInv
<1>4. CASE ToggleDaemon
  <2>1. CASE job
    BY <1>4, <2>1, DeadIInv DEF ToggleDaemon, Change, kextVars, fileVars, guiVars
  <2>2. CASE ~job
    <3>1. UNCHANGED settingVars
      BY <1>4, <2>2 DEF ToggleDaemon, Change, settingVars, kextVars, fileVars, guiVars
    <3> QED
      BY <3>1, OtherIInv
  <2> QED
    BY <2>1, <2>2
<1>5. CASE Crash
  BY <1>5, DeadIInv DEF Crash, Change, kextVars, fileVars, guiVars
<1>6. CASE Reboot \/ Panic
  BY <1>6, DeadIInv DEF Reboot, Panic, Restarted, Change, fileVars
<1>7. CASE Bootout
  BY <1>7, DeadIInv DEF Bootout, kextVars, fileVars, guiVars
<1>8. CASE UnloadKext
  <2>1. UNCHANGED <<daemon, sock, next, val, saved, choice>>
    BY <1>8 DEF UnloadKext, daemonVars, fileVars, guiVars
  <2>2. CASE BeginStop
    BY <2>1, <2>2, BeginStopIInv
  <2>3. CASE UNCHANGED <<kextVars, touched>>
    BY <2>1, <2>3, OtherIInv DEF settingVars, kextVars
  <2> QED
    BY <1>8, <2>2, <2>3 DEF UnloadKext
<1>9. CASE RemoveFiles
  <2>1. /\ saved' = [k \in Settings |-> None]
        /\ UNCHANGED <<kext, bridge, oids, setting, daemon, sock, next, val, choice, touched>>
    BY <1>9 DEF RemoveFiles, kextVars, daemonVars, guiVars
  <2>2. \A k \in Settings : ~Saved(k)'
    BY <2>1 DEF Saved
  <2>3. LinkOK'
    BY <2>1 DEF IInv, LinkOK
  <2>4. ValuesOK'
    BY <2>1 DEF IInv, ValuesOK, Settings
  <2>5. PassedRestored'
    BY <2>1, <2>2, OrderFacts DEF PassedRestored, Saved
  <2>6. ReadFresh'
    BY <2>1, <2>2, <2>4, OrderFacts DEF ReadFresh, Saved, ValuesOK
  <2> QED
    BY <2>3, <2>4, <2>5, <2>6 DEF IInv
<1> QED
  BY <1>1, <1>2, <1>3, <1>4, <1>5, <1>6, <1>7, <1>8, <1>9 DEF Uninstall

\* The invariant holds in every reachable state.
THEOREM IInvHolds == Spec => []IInv
<1>1. IInv /\ [Next]_vars => IInv'
  <2> SUFFICES ASSUME IInv, [Next]_vars PROVE IInv'
    OBVIOUS
  <2>1. CASE Kernel
    BY <2>1, KernelIInv
  <2>2. CASE Main
    BY <2>2, MainIInv
  <2>3. CASE MountThread
    <3>1. UNCHANGED settingVars
      BY <2>3 DEF MountThread, settingVars, kextVars, fileVars, guiVars
    <3> QED
      BY <3>1, OtherIInv
  <2>4. CASE Truncate \/ Save \/ \E k \in Settings : \E v \in Values(k) : SetLive(k, v)
    BY <2>4, GuiIInv
  <2>5. CASE Load \/ Unload \/ ToggleMount \/ ToggleDaemon \/ Crash \/ Reboot \/ Panic
             \/ Uninstall
    BY <2>5, OperatorIInv
  <2>6. CASE UNCHANGED vars
    <3>1. UNCHANGED settingVars
      BY <2>6 DEF vars, settingVars, kextVars, daemonVars, fileVars, guiVars
    <3> QED
      BY <3>1, OtherIInv
  <2> QED
    BY <2>1, <2>2, <2>3, <2>4, <2>5, <2>6 DEF Next
<1> QED
  BY <1>1, InitIInv, PTL DEF Spec

\* apply_persisted_linux_mode: whenever the daemon serves a loaded extension, the
\* settings the user has not touched since the load have their saved values, for
\* any versions and any number of reloads, reboots and deaths of the daemon.
THEOREM SettingsAreRestored == Spec => []SettingsRestored
BY IInvHolds, RestoredFromIInv, PTL

-----------------------------------------------------------------------------
(* The types.                                                              *)

\* What LinkOK and ValuesOK leave out of the types: where the programs are, and
\* that the file system is known to the VFS for as long as it is mounted.
Phases ==
    /\ kext \in {"out", "unregistered", "closed"} \union Starting \union Loaded
    /\ daemon \in {"off", "boot", "loading", "connect", "read", "write", "serve"}
    /\ sock \in SocketStates
    /\ thread \in {"off", "check", "mount"}
    /\ gui \in {"idle", "save", "write"}
    /\ script \in {"none", "bootout", "unload", "unloading", "remove", "done"}

Flags ==
    /\ mounted \in BOOLEAN
    /\ registered = (kext # "out")
    /\ mounted => registered
    /\ job \in BOOLEAN
    /\ armed \in BOOLEAN

Counts == changes \in 0 .. MaxChanges /\ touched \subseteq Settings

\* IInv, Phases, Flags and Counts make up the type invariant.
LEMMA PartsGiveTypes == IInv /\ Phases /\ Flags /\ Counts => TypeOK
<1> SUFFICES ASSUME IInv, Phases, Flags, Counts PROVE TypeOK
  OBVIOUS
<1>1. oids \in SUBSET Settings
  BY DEF IInv, LinkOK, Settings
<1>2. bridge => kext \notin {"out", "added", "closed", "refused"}
  BY DEF IInv, LinkOK
<1>3. /\ sock = "live" => bridge
      /\ setting \in [Settings -> Nat] /\ val \in Nat
      /\ saved \in [Settings -> {None, Empty} \union Nat]
  BY DEF IInv, LinkOK, ValuesOK
<1>4. next \in 1 .. Len(Order)
  BY OrderFacts DEF IInv, ValuesOK
<1> QED
  BY <1>1, <1>2, <1>3, <1>4 DEF Phases, Flags, Counts, TypeOK

\* Every program moves between its phases only.
LEMMA PhasesKept == Phases /\ [Next]_vars => Phases'
<1> SUFFICES ASSUME Phases, [Next]_vars PROVE Phases'
  OBVIOUS
<1> USE DEF Phases, Starting, Loaded, SocketStates
<1>1. CASE Kernel
  BY <1>1 DEF Kernel, StartControl, StartSysctl, StopControl, StopRemove, daemonVars, guiVars
<1>2. CASE Main
  BY <1>2 DEF Main, Restart, Bootstrap, BeginStart, Bootstrapped, Connect, ReadSaved,
              WriteSetting, GiveUp, RecvFails, RecvShort, Advance, kextVars, guiVars
<1>3. CASE MountThread
  BY <1>3 DEF MountThread, CheckMount, TryMount, kextVars, guiVars
<1>4. CASE Uninstall
  BY <1>4 DEF Uninstall, UnmountAll, Bootout, UnloadKext, Unloaded, RemoveFiles, BeginStop,
              Dead, kextVars, daemonVars, guiVars
<1>5. CASE \/ Truncate \/ Save
           \/ \E k \in Settings : \E v \in Values(k) : SetLive(k, v)
  BY <1>5 DEF Truncate, Save, SaveTo, SetLive, kextVars, daemonVars
<1>6. CASE Load \/ Unload \/ ToggleMount \/ ToggleDaemon \/ Crash \/ Reboot \/ Panic
  BY <1>6 DEF Load, Unload, ToggleMount, ToggleDaemon, Crash, Reboot, Panic, Restarted,
              BeginStart, BeginStop,
              Dead, Change, kextVars, daemonVars, guiVars
<1>7. CASE UNCHANGED vars
  BY <1>7 DEF vars, kextVars, daemonVars, guiVars
<1> QED
  BY <1>1, <1>2, <1>3, <1>4, <1>5, <1>6, <1>7 DEF Next

\* vfs_fsadd and vfs_fsremove: the file system is registered from the start of the
\* extension to its end, which a mount prevents; mount(2) needs it registered.
LEMMA FlagsKept == Flags /\ [Next]_vars => Flags'
<1> SUFFICES ASSUME Flags, [Next]_vars PROVE Flags'
  OBVIOUS
<1> USE DEF Flags
<1>1. CASE Kernel
  <2>1. UNCHANGED <<mounted, job, armed>>
    BY <1>1 DEF Kernel, daemonVars, fileVars
  <2>2. CASE StopRemove
    BY <2>1, <2>2, Zenon DEF StopRemove
  <2>3. CASE StartControl \/ StartSysctl \/ StopControl
    <3>1. registered' = registered /\ kext # "out" /\ kext' # "out"
      BY <2>3 DEF StartControl, StartSysctl, StopControl
    <3> QED
      BY <2>1, <3>1, Zenon
  <2> QED
    BY <1>1, <2>2, <2>3 DEF Kernel
<1>2. CASE Main
  <2>1. UNCHANGED <<mounted, job, armed>>
    BY <1>2 DEF Main, fileVars, Restart, Bootstrap, Bootstrapped, Connect, ReadSaved,
                WriteSetting, GiveUp, RecvFails, RecvShort
  <2>2. UNCHANGED <<kext, registered>> \/ BeginStart
    BY <1>2 DEF Main, Restart, Bootstrap, Bootstrapped, Connect, ReadSaved,
                WriteSetting, GiveUp, RecvFails, RecvShort, kextVars
  <2> QED
    BY <2>1, <2>2 DEF BeginStart
<1>3. CASE MountThread
  <2>1. UNCHANGED <<kext, registered, job, armed>>
    BY <1>3 DEF MountThread, kextVars, fileVars
  <2>2. mounted' = mounted \/ mounted' = (mounted \/ registered)
    BY <1>3, Zenon DEF MountThread, CheckMount, TryMount, MountCall
  <2>3. registered \in BOOLEAN
    OBVIOUS
  <2>4. mounted' \in BOOLEAN
    BY <2>2, <2>3, Zenon
  <2>5. mounted' => registered
    BY <2>2, Zenon
  <2> QED
    BY <2>1, <2>4, <2>5, Zenon
<1>4. CASE Uninstall
  <2>1. job' \in BOOLEAN /\ armed' \in BOOLEAN
    BY <1>4 DEF Uninstall, UnmountAll, Bootout, UnloadKext, Unloaded, RemoveFiles, daemonVars,
                fileVars
  <2>2. mounted' = FALSE \/ mounted' = mounted
    BY <1>4 DEF Uninstall, UnmountAll, Bootout, UnloadKext, Unloaded, RemoveFiles
  <2>3. UNCHANGED <<kext, registered>> \/ BeginStop
    BY <1>4 DEF Uninstall, UnmountAll, Bootout, UnloadKext, Unloaded, RemoveFiles, kextVars
  <2>4. registered' = (kext' # "out") /\ (registered => registered')
    <3>1. CASE BeginStop
      <4>1. kext # "out" /\ kext' # "out" /\ registered' = registered
        BY <3>1 DEF BeginStop, Loaded
      <4> QED
        BY <4>1, Zenon
    <3> QED
      BY <2>3, <3>1, Zenon
  <2>5. CASE mounted' = FALSE
    BY <2>1, <2>4, <2>5
  <2>6. CASE mounted' = mounted
    BY <2>1, <2>4, <2>6, Zenon
  <2> QED
    BY <2>2, <2>5, <2>6
<1>5. CASE \/ Truncate \/ Save
           \/ \E k \in Settings : \E v \in Values(k) : SetLive(k, v)
  <2>1. UNCHANGED <<mounted, registered, kext, job, armed>>
    BY <1>5 DEF Truncate, Save, SaveTo, SetLive, kextVars, daemonVars, fileVars
  <2> QED
    BY <2>1, Zenon
<1>6. CASE Load \/ Unload
  <2>1. UNCHANGED <<mounted, job, armed>>
    BY <1>6 DEF Load, Unload, Change, daemonVars, fileVars
  <2>2. registered' = (kext' # "out") /\ (registered => registered')
    <3>1. CASE BeginStart
      BY <3>1 DEF BeginStart
    <3>2. CASE BeginStop
      <4>1. kext # "out" /\ kext' # "out" /\ registered' = registered
        BY <3>2 DEF BeginStop, Loaded
      <4> QED
        BY <4>1, Zenon
    <3> QED
      BY <1>6, <3>1, <3>2 DEF Load, Unload
  <2> QED
    BY <2>1, <2>2, Zenon
<1>7. CASE ToggleMount
  <2>1. UNCHANGED <<kext, registered, job, armed>> /\ mounted' = ~mounted
    BY <1>7 DEF ToggleMount, Change, kextVars, daemonVars, fileVars
  <2>2. mounted \/ registered
    BY <1>7 DEF ToggleMount
  <2> QED
    BY <2>1, <2>2, Zenon
<1>8. CASE ToggleDaemon \/ Crash
  <2>1. UNCHANGED <<kext, registered, mounted, armed>> /\ (job' = job \/ job' = ~job)
    BY <1>8 DEF ToggleDaemon, Crash, Change, kextVars, fileVars
  <2> QED
    BY <2>1, Zenon
<1>9. CASE Reboot \/ Panic
  BY <1>9 DEF Reboot, Panic, Restarted, Change, fileVars
<1>10. CASE UNCHANGED vars
  <2>1. UNCHANGED <<kext, registered, mounted, job, armed>>
    BY <1>10 DEF vars, kextVars, daemonVars, fileVars
  <2> QED
    BY <2>1, Zenon
<1> QED
  BY <1>1, <1>2, <1>3, <1>4, <1>5, <1>6, <1>7, <1>8, <1>9, <1>10 DEF Next

\* Operations count up to their bound, and only settings are touched.
LEMMA CountsKept == IInv /\ Counts /\ [Next]_vars => Counts'
<1> SUFFICES ASSUME IInv, Counts, [Next]_vars PROVE Counts'
  OBVIOUS
<1>1. changes' = changes \/ (changes < MaxChanges /\ changes' = changes + 1)
  BY DEF Next, vars, Kernel, Main, MountThread, CheckMount, TryMount, MountCall, Uninstall,
         UnmountAll, Bootout, UnloadKext, Unloaded, RemoveFiles, Truncate, Save, SaveTo, SetLive, Load, Unload, ToggleMount,
         ToggleDaemon, Crash, Reboot, Panic, Change
<1>2. touched' \subseteq Settings
  <2>1. CASE touched' = {} \/ touched' = touched
    BY <2>1 DEF Counts
  <2>2. CASE Truncate \/ Save
    BY <2>2 DEF Truncate, Save, SaveTo, Counts, IInv, ValuesOK
  <2>3. ASSUME NEW k \in Settings, NEW v \in Values(k), SetLive(k, v)
        PROVE  touched' \subseteq Settings
    BY <2>3 DEF SetLive, Counts
  <2>4. CASE Kernel \/ Main \/ MountThread \/ Uninstall
    <3>1. touched' = {} \/ touched' = touched
      BY <2>4 DEF Kernel, Main, Restart, Bootstrap, BeginStart, Bootstrapped, Connect, ReadSaved,
                  WriteSetting, GiveUp, RecvFails, RecvShort, MountThread, Uninstall,
                  UnmountAll, Bootout, UnloadKext, BeginStop, Unloaded, RemoveFiles
    <3> QED
      BY <2>1, <3>1
  <2>5. CASE Load \/ Unload \/ ToggleMount \/ ToggleDaemon \/ Crash \/ Reboot \/ Panic
             \/ UNCHANGED vars
    <3>1. touched' = {} \/ touched' = touched
      BY <2>5 DEF vars, Load, Unload, BeginStart, BeginStop, ToggleMount, ToggleDaemon, Crash,
                  Reboot, Panic, Restarted
    <3> QED
      BY <2>1, <3>1
  <2> QED
    BY <2>2, <2>3, <2>4, <2>5 DEF Next
<1> QED
  BY <1>1, <1>2, BoundAssumption DEF Counts

\* The phases of the programs, the settings and the files keep their types; the
\* control and the sysctls of procfs_start are there only in a loaded extension,
\* and /proc is mounted only while the file system is registered.
THEOREM TypesAreKept == Spec => []TypeOK
<1>1. Init => Phases /\ Flags /\ Counts
  <2>1. Init => Phases
    BY DEF Init, Phases, SocketStates
  <2>2. Init => Flags
    BY Zenon DEF Init, Flags
  <2>3. Init => Counts
    BY BoundAssumption DEF Init, Counts
  <2> QED
    BY <2>1, <2>2, <2>3
<1>2. Spec => [](Phases /\ Flags)
  BY <1>1, PhasesKept, FlagsKept, PTL DEF Spec
<1>3. Spec => []Counts
  BY <1>1, IInvHolds, CountsKept, PTL DEF Spec
<1> QED
  BY <1>2, <1>3, IInvHolds, PartsGiveTypes, PTL
=============================================================================
