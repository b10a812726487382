------------------------------- MODULE Service -------------------------------
(***************************************************************************)
(* The parts of procfs that keep it in service: the start and stop         *)
(* routines of the extension (kext/procfs.c), the main loop of the daemon  *)
(* with its automount thread (tools/procfsd.c), the application that       *)
(* changes and saves the settings (gui/ProcFSMenu.swift) and the           *)
(* uninstaller (installer/uninstall.sh).  They share the kernel's tables,  *)
(* the mount at /proc and files under /var/db, and nothing orders them.    *)
(*                                                                         *)
(* A system call, or a command of a script, is one step.  The requests the *)
(* daemon serves are CtlBridge's.  launchd, kmutil and the kernel-control  *)
(* layer are external: a control that goes away under its client may end   *)
(* the client's socket with an error or without one, or refuse to go, and  *)
(* a mount over a mounted /proc is refused.                                *)
(***************************************************************************)
EXTENDS Naturals, Sequences

CONSTANTS
    Versions,    \* values of procfs.linux_version the user chooses from
    MaxChanges,  \* bound: operator commands, reboots, deaths of the daemon and
                 \* mounts that fail
    None,        \* a settings file that does not exist
    Empty        \* a settings file that was truncated and not written yet

\* The order in which procfs_sysctl_register and the daemon take the settings.
Order == <<"linux", "linux_version">>
Settings == {"linux", "linux_version"}
Values(k) == IF k = "linux" THEN {0, 1} ELSE Versions

ASSUME VersionsAssumption == 0 \in Versions /\ Versions \subseteq Nat
ASSUME BoundAssumption == MaxChanges \in Nat
ASSUME FilesAssumption == None # Empty /\ {None, Empty} \intersect Nat = {}

VARIABLES
    kext,       \* how far procfs_start or procfs_stop has come
    registered, \* procfs_vfs_table_ref: the VFS knows the file system
    bridge,     \* the kernel control is registered
    oids,       \* the settings whose sysctl is registered
    setting,    \* setting: its value in the extension
    mounted,    \* procfs is mounted at /proc
    job,        \* launchd keeps the daemon alive
    daemon,     \* where main of the daemon is
    sock,       \* its control socket (SocketStates)
    next,       \* apply_persisted_linux_mode: index of the setting it is at
    val,        \* apply_persisted_int: val
    thread,     \* where the automount thread is
    armed,      \* PROCFS_ARM_FLAG exists
    saved,      \* setting: the number in its file, None or Empty
    gui,        \* "idle", or the command it runs: "save" or "write"
    choice,     \* the <<setting, value>> of that command
    script,     \* where the uninstaller is
    changes,    \* MaxChanges counts these
    touched     \* settings the user changed since the extension was loaded

kextVars   == <<kext, registered, bridge, oids, setting>>
daemonVars == <<job, daemon, sock, next, val, thread>>
fileVars   == <<armed, saved>>
guiVars    == <<gui, choice>>
vars == <<kextVars, mounted, daemonVars, fileVars, guiVars, script, changes, touched>>

\* No socket; connected; ended, with an error from recv or with a return of 0;
\* connected to a control that ctl_deregister refused to remove.
SocketStates == {"none", "live", "dead", "eof", "stale"}

Starting == {"added", "control", "linux"}
Loaded   == {"up", "refused"}

Init ==
    /\ kext = "out"
    /\ registered = FALSE
    /\ bridge = FALSE
    /\ oids = {}
    /\ setting = [k \in Settings |-> 0]
    /\ mounted = FALSE
    /\ job = TRUE
    /\ daemon = "off"
    /\ sock = "none"
    /\ next = 1
    /\ val = 0
    /\ thread = "off"
    /\ armed \in BOOLEAN
    /\ saved \in [Settings -> {None, 1}]
    /\ gui = "idle"
    /\ choice = <<"linux", 0>>
    /\ script = "none"
    /\ changes = 0
    /\ touched = {}

-----------------------------------------------------------------------------
(* procfs_start and procfs_stop.                                           *)

\* procfs_init and vfs_fsadd, in a fresh image of the extension.
BeginStart ==
    /\ kext = "out"
    /\ kext' = "added"
    /\ registered' = TRUE
    /\ setting' = [k \in Settings |-> 0]
    /\ touched' = {}
    /\ UNCHANGED <<bridge, oids>>

\* procfs_ctl_register: a failure is not fatal.  It fails while a control of an
\* earlier image still has the name.
StartControl ==
    /\ kext = "added"
    /\ kext' = "control"
    /\ bridge' \in IF sock = "stale" THEN {FALSE} ELSE BOOLEAN
    /\ UNCHANGED <<registered, oids, setting>>

\* procfs_sysctl_register, one setting after the other.
StartSysctl ==
    /\ kext \in {"control", "linux"}
    /\ kext' = IF kext = "control" THEN "linux" ELSE "up"
    /\ oids' = oids \union {IF kext = "control" THEN Order[1] ELSE Order[2]}
    /\ UNCHANGED <<registered, bridge, setting>>

\* procfs_sysctl_unregister: the first thing procfs_stop does.
BeginStop ==
    /\ kext \in Loaded
    /\ kext' = "unregistered"
    /\ oids' = {}
    /\ UNCHANGED <<registered, bridge, setting, touched>>

\* Mutant: the control is removed under its client, which is not told.
StopControlQuietly ==
    /\ kext = "unregistered"
    /\ kext' = "closed"
    /\ bridge' = FALSE
    /\ UNCHANGED <<registered, oids, setting, sock>>

\* procfs_ctl_deregister does not look at what ctl_deregister returns.  With the
\* daemon connected the control may go and end the socket, or it may stay.
StopControl ==
    /\ kext = "unregistered"
    /\ kext' = "closed"
    /\ bridge' = FALSE
    /\ sock' \in IF sock = "live" THEN {"dead", "eof", "stale"} ELSE {sock}
    /\ UNCHANGED <<registered, oids, setting>>

\* vfs_fsremove: refused while /proc is mounted; the extension then stays
\* loaded without its sysctl and its control.
StopRemove ==
    /\ kext = "closed"
    /\ kext' = IF mounted THEN "refused" ELSE "out"
    /\ registered' = mounted
    /\ UNCHANGED <<bridge, oids, setting>>

Kernel ==
    \/ /\ StartControl \/ StartSysctl \/ StopRemove
       /\ UNCHANGED <<mounted, daemonVars, fileVars, guiVars, script, changes, touched>>
    \/ /\ StopControl
       /\ UNCHANGED <<mounted, job, daemon, next, val, thread, fileVars, guiVars,
                      script, changes, touched>>

-----------------------------------------------------------------------------
(* The daemon.                                                             *)

Dead ==
    /\ daemon' = "off"
    /\ sock' = "none"
    /\ next' = 1
    /\ val' = 0
    /\ thread' = "off"

\* launchd (KeepAlive) starts the daemon.
Restart ==
    /\ job
    /\ daemon = "off"
    /\ daemon' = "boot"
    /\ UNCHANGED <<kextVars, job, sock, next, val, thread, touched>>

\* procfsd_bootstrap of an armed daemon: kmutil load starts the extension, or
\* fails, or finds it loaded.
Bootstrap ==
    /\ daemon = "boot"
    /\ armed
    /\ daemon' = "loading"
    /\ BeginStart \/ UNCHANGED <<kextVars, touched>>
    /\ UNCHANGED <<job, sock, next, val, thread>>

\* kmutil has returned, or there was nothing to load; main creates the
\* automount thread.
Bootstrapped ==
    /\ \/ daemon = "loading" /\ kext \notin Starting
       \/ daemon = "boot" /\ ~armed
    /\ daemon' = "connect"
    /\ thread' = "check"
    /\ UNCHANGED <<kextVars, job, sock, next, val, touched>>

\* wait_connect returns: the control is registered.
Connect ==
    /\ daemon = "connect"
    /\ bridge
    /\ sock' = "live"
    /\ daemon' = "read"
    /\ next' = 1
    /\ UNCHANGED <<kextVars, job, val, thread, touched>>

\* apply_persisted_int returns: the next setting, or the receive loop.
Advance ==
    IF next < Len(Order)
    THEN daemon' = "read" /\ next' = next + 1
    ELSE daemon' = "serve" /\ UNCHANGED next

Clamp(k, v) == IF k = "linux" /\ v # 0 THEN 1 ELSE v

\* apply_persisted_int reads the file; an absent or empty one is skipped.
ReadSaved ==
    /\ daemon = "read"
    /\ LET k == Order[next]
       IN  IF saved[k] \in {None, Empty}
           THEN Advance /\ UNCHANGED val
           ELSE /\ val' = Clamp(k, saved[k])
                /\ daemon' = "write"
                /\ UNCHANGED next
    /\ UNCHANGED <<kextVars, job, sock, thread, touched>>

\* apply_persisted_int writes the sysctl.
WriteSetting ==
    /\ daemon = "write"
    /\ Order[next] \in oids
    /\ setting' = [setting EXCEPT ![Order[next]] = val]
    /\ Advance
    /\ UNCHANGED <<kext, registered, bridge, oids, job, sock, val, thread, touched>>

\* Mutant: the sysctl is tried once.
GiveUpAtOnce ==
    /\ daemon = "write"
    /\ Order[next] \notin oids
    /\ Advance
    /\ UNCHANGED <<kextVars, job, sock, val, thread, touched>>

\* The 50 tries ran out: they last a second, procfs_start some microseconds.
GiveUp ==
    /\ daemon = "write"
    /\ Order[next] \notin oids
    /\ kext \notin Starting
    /\ Advance
    /\ UNCHANGED <<kextVars, job, sock, val, thread, touched>>

\* Mutant: the loop goes on with the same socket.
RecvContinues ==
    /\ daemon = "serve"
    /\ sock = "dead"
    /\ UNCHANGED <<kextVars, job, daemon, sock, next, val, thread, touched>>

\* recv fails in the receive loop: close and connect again.
RecvFails ==
    /\ daemon = "serve"
    /\ sock = "dead"
    /\ sock' = "none"
    /\ daemon' = "connect"
    /\ UNCHANGED <<kextVars, job, next, val, thread, touched>>

\* recv returns 0, or less than a request: the loop goes on with the same socket.
RecvShort ==
    /\ daemon = "serve"
    /\ sock \in {"live", "eof"}
    /\ UNCHANGED <<kextVars, job, daemon, sock, next, val, thread, touched>>

Main ==
    /\ \/ Restart \/ Bootstrap \/ Bootstrapped \/ Connect \/ ReadSaved
       \/ WriteSetting \/ GiveUp \/ RecvFails \/ RecvShort
    /\ UNCHANGED <<mounted, fileVars, guiVars, script, changes>>

\* procfsd_try_mount: armed and, as statfs says, not mounted.
CheckMount ==
    /\ thread = "check"
    /\ armed
    /\ ~mounted
    /\ thread' = "mount"
    /\ UNCHANGED <<mounted, changes>>

\* mount(2) fails without the file system; it may fail with it too, for a reason
\* that passes.
MountCall ==
    \/ /\ mounted' = (mounted \/ registered)
       /\ UNCHANGED changes
    \/ /\ registered
       /\ changes < MaxChanges
       /\ changes' = changes + 1
       /\ UNCHANGED mounted

\* Mutant: the thread ends when the mount has succeeded.
TryMountOnce ==
    /\ thread = "mount"
    /\ MountCall
    /\ thread' = IF mounted' THEN "off" ELSE "check"

\* procfsd_mount_thread sleeps after the call, failed or not, and starts again.
TryMount ==
    /\ thread = "mount"
    /\ MountCall
    /\ thread' = "check"

MountThread ==
    /\ CheckMount \/ TryMount
    /\ UNCHANGED <<kextVars, job, daemon, sock, next, val, fileVars, guiVars, script,
                   touched>>

-----------------------------------------------------------------------------
(* The application: toggleLinux and setLinuxVersion run sysctl -w and, if  *)
(* that succeeds, echo into the file, which truncates it first.            *)

SetLive(k, v) ==
    /\ gui = "idle"
    /\ script = "none"
    /\ k \in oids
    /\ setting' = [setting EXCEPT ![k] = v]
    /\ choice' = <<k, v>>
    /\ gui' = "save"
    /\ changes < MaxChanges
    /\ changes' = changes + 1
    /\ touched' = touched \union {k}
    /\ UNCHANGED <<kext, registered, bridge, oids, mounted, daemonVars, fileVars, script>>

SaveTo(was, is, content) ==
    /\ gui = was
    /\ gui' = is
    /\ saved' = [saved EXCEPT ![choice[1]] = content]
    /\ touched' = touched \union {choice[1]}
    /\ UNCHANGED <<kextVars, mounted, daemonVars, armed, choice, script, changes>>

Truncate == SaveTo("save", "write", Empty)
Save     == SaveTo("write", "idle", choice[2])

-----------------------------------------------------------------------------
(* The operator and the machine.                                           *)

Change ==
    /\ changes < MaxChanges
    /\ changes' = changes + 1
    /\ UNCHANGED <<fileVars, script>>

\* kmutil load and kmutil unload by hand, while the files are there.
Load ==
    /\ script = "none"
    /\ BeginStart
    /\ Change
    /\ UNCHANGED <<mounted, daemonVars, guiVars>>

Unload ==
    /\ script = "none"
    /\ BeginStop
    /\ Change
    /\ UNCHANGED <<mounted, daemonVars, guiVars>>

\* toggleMount.
ToggleMount ==
    /\ script = "none"
    /\ mounted \/ registered
    /\ mounted' = ~mounted
    /\ Change
    /\ UNCHANGED <<kextVars, daemonVars, guiVars, touched>>

\* toggleDaemon: launchctl bootout ends the daemon for good, bootstrap brings
\* it back.
ToggleDaemon ==
    /\ script = "none"
    /\ sock # "stale"
    /\ job' = ~job
    /\ IF job THEN Dead ELSE UNCHANGED <<daemon, sock, next, val, thread>>
    /\ Change
    /\ UNCHANGED <<kextVars, mounted, guiVars, touched>>

\* The daemon dies.
Crash ==
    /\ daemon # "off"
    /\ sock # "stale"
    /\ Dead
    /\ Change
    /\ UNCHANGED <<kextVars, mounted, job, guiVars, touched>>

\* The machine restarts: only the files are left.
Restarted ==
    /\ kext' = "out"
    /\ registered' = FALSE
    /\ bridge' = FALSE
    /\ oids' = {}
    /\ setting' = [k \in Settings |-> 0]
    /\ mounted' = FALSE
    /\ job' = TRUE
    /\ Dead
    /\ gui' = "idle"
    /\ UNCHANGED <<choice, touched>>

Reboot ==
    /\ script = "none"
    /\ Restarted
    /\ Change

\* The daemon ends, in whatever way, with a socket of a control whose extension
\* was stopped: the kernel calls procfs_ctl_disconnect, whose lock is freed and
\* whose code may be gone, and the machine goes down.
Panic ==
    /\ sock = "stale"
    /\ Restarted
    /\ script' = "none"
    /\ UNCHANGED <<fileVars, changes>>

-----------------------------------------------------------------------------
(* uninstall.sh: the errors of its commands are ignored.                   *)

\* umount, or diskutil unmount force, of every procfs that mount(8) lists.
UnmountAll ==
    /\ script = "none"
    /\ script' = "bootout"
    /\ mounted' = FALSE
    /\ UNCHANGED <<kextVars, daemonVars, fileVars, guiVars, changes, touched>>

\* launchctl bootout, launchctl disable and rm of the plist.
Bootout ==
    /\ script = "bootout"
    /\ sock # "stale"
    /\ script' = "unload"
    /\ job' = FALSE
    /\ Dead
    /\ UNCHANGED <<kextVars, mounted, fileVars, guiVars, changes, touched>>

\* kmutil unload, once the kernel is done with an earlier load or unload.
UnloadKext ==
    /\ script = "unload"
    /\ \/ BeginStop /\ script' = "unloading"
       \/ kext = "out" /\ script' = "remove" /\ UNCHANGED <<kextVars, touched>>
    /\ UNCHANGED <<mounted, daemonVars, fileVars, guiVars, changes>>

\* kmutil has returned, its error is ignored.
Unloaded ==
    /\ script = "unloading"
    /\ kext \in {"out", "refused"}
    /\ script' = "remove"
    /\ UNCHANGED <<kextVars, mounted, daemonVars, fileVars, guiVars, changes, touched>>

\* rm of the installed files, the arm flag and the saved settings.
RemoveFiles ==
    /\ script = "remove"
    /\ script' = "done"
    /\ armed' = FALSE
    /\ saved' = [k \in Settings |-> None]
    /\ UNCHANGED <<kextVars, mounted, daemonVars, guiVars, changes, touched>>

Uninstall == UnmountAll \/ Bootout \/ UnloadKext \/ Unloaded \/ RemoveFiles

Next ==
    \/ Kernel \/ Main \/ MountThread \/ Uninstall
    \/ \E k \in Settings : \E v \in Values(k) : SetLive(k, v)
    \/ Truncate \/ Save
    \/ Load \/ Unload \/ ToggleMount \/ ToggleDaemon \/ Crash \/ Reboot \/ Panic

\* The kernel goes on with a start or a stop, launchd and the scheduler with
\* the threads of the daemon.
Spec ==
    /\ Init
    /\ [][Next]_vars
    /\ WF_vars(Kernel)
    /\ WF_vars(Main)
    /\ WF_vars(MountThread)

-----------------------------------------------------------------------------
(* Properties.                                                             *)

\* The phases, sockets and files have their types, and the control and the
\* sysctls are there only in a loaded extension.
TypeOK ==
    /\ kext \in {"out", "unregistered", "closed"} \union Starting \union Loaded
    /\ registered = (kext # "out")
    /\ bridge => kext \notin {"out", "added", "closed", "refused"}
    /\ oids \in SUBSET Settings
    /\ setting \in [Settings -> Nat]
    /\ mounted => registered
    /\ job \in BOOLEAN /\ armed \in BOOLEAN
    /\ daemon \in {"off", "boot", "loading", "connect", "read", "write", "serve"}
    /\ sock \in SocketStates
    /\ sock = "live" => bridge
    /\ next \in 1 .. Len(Order)
    /\ val \in Nat
    /\ thread \in {"off", "check", "mount"}
    /\ saved \in [Settings -> {None, Empty} \union Nat]
    /\ gui \in {"idle", "save", "write"}
    /\ script \in {"none", "bootout", "unload", "unloading", "remove", "done"}
    /\ changes \in 0 .. MaxChanges
    /\ touched \subseteq Settings

\* apply_persisted_linux_mode: when the daemon serves the control of a loaded
\* extension, a setting the user has not changed since the load has its saved
\* value again, whatever the order of reloads, deaths of the daemon, reboots and
\* registrations of the sysctls behind the control.
SettingsRestored ==
    daemon = "serve" /\ sock = "live" =>
        \A k \in oids \ touched :
            saved[k] \notin {None, Empty} => setting[k] = saved[k]

\* procfsd_mount_thread: while the flag is set, the daemon enabled and the file
\* system registered, /proc is mounted again after every unmount, reload of the
\* extension or death of the daemon.
Remounted == []<>(mounted \/ ~armed \/ ~job \/ ~registered)

\* The error path of the receive loop and wait_connect: while the daemon is
\* enabled and the control of the loaded extension registered, the daemon comes
\* back to its receive loop with a socket of that control, unless its old socket
\* ended with a return of 0, on which the loop goes on for ever.
Reconnected ==
    []<>((daemon = "serve" /\ sock = "live") \/ ~job \/ ~bridge \/ sock = "eof")

\* The header of uninstall.sh: it unmounts /proc, stops the daemon and unloads
\* the extension.
UninstallComplete == script = "done" => kext = "out" /\ ~mounted /\ daemon = "off"

=============================================================================
