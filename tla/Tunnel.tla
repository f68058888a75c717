------------------------------- MODULE Tunnel -------------------------------
(***************************************************************************)
(* The managed Cloudflare tunnel: tunnel.py, the requests that switch it   *)
(* (admin.py) and its start at boot (main.py).                             *)
(*                                                                         *)
(* Requests to start and stop run on the event loop and give way only      *)
(* where they await: the end of the old child, the spawn of the new one.   *)
(* Three more requests, each in a thread, write the same row of            *)
(* device_settings: put_remote(), update_device() and provision().         *)
(***************************************************************************)
EXTENDS Naturals, FiniteSets

CONSTANTS
    Switchers,      \* requests in progress at a time to start or stop the tunnel
    MaxChildren     \* bound: cloudflared processes ever started

ASSUME TunnelAssumption == MaxChildren \in Nat /\ IsFiniteSet(Switchers)

Children == 1..MaxChildren
NoChild == 0
Modes == {"named", "quick"}

VARIABLES
    child,        \* child[c]: state of the c-th process started
    quick,        \* the children started with --url, whose output is captured
    proc,         \* TunnelManager._proc
    tunnelMode,   \* TunnelManager._mode, "none" when None
    url,          \* TunnelManager._url: the child that printed it
    scansDue,     \* _scan_url() tasks created and not yet run
    read,         \* children whose output some task has begun to read
    switch,       \* switch[r]: a request to start or stop
    saver,        \* a request to save the settings; one at a time
    config,       \* config_json of device_settings, its part remote_access
    \* history, read by no guard
    twoStarts,    \* two requests to start were in progress at once
    alone,        \* a switch is in progress and has met neither another nor a save
    unsettled,    \* since the last switch that was alone, or reboot: a switch met another
                  \* or a save, a tunnel could not be started, a save changed tunnel_enabled
    lateUrl       \* a task recorded the url of a child that is not _proc

tunnelHistory == <<twoStarts, alone, unsettled, lateUrl>>
tunnelVars == <<child, quick, proc, tunnelMode, url, scansDue, read, switch, saver, config, tunnelHistory>>

-----------------------------------------------------------------------------
Configs == [enabled : BOOLEAN, mode : Modes, token : BOOLEAN]
Config0 == [enabled |-> FALSE, mode |-> "named", token |-> FALSE]

\* A request to switch waits for the old child, for the new one, then reads the
\* settings, checks their version and writes them back.
NoSwitch == [at |-> "idle", start |-> FALSE, mode |-> "named", seen |-> Config0, stale |-> FALSE]
SwitchRows == [at : {"idle", "stopping", "spawning", "read", "checked"}, start : BOOLEAN,
               mode : Modes, seen : Configs, stale : BOOLEAN]
\* A request to save may have read a token that it is to keep.
NotSaving == [at |-> "idle", keeps |-> FALSE, stale |-> FALSE]
SaverRows == [at : {"idle", "read", "checked"}, keeps : BOOLEAN, stale : BOOLEAN]

TunnelInit ==
    /\ child = [c \in Children |-> "none"]
    /\ quick = {} /\ read = {}
    /\ proc = NoChild /\ url = NoChild
    /\ tunnelMode = "none"
    /\ scansDue = 0
    /\ switch = [r \in Switchers |-> NoSwitch]
    /\ saver = NotSaving
    /\ config = Config0
    /\ twoStarts = FALSE /\ alone = FALSE /\ unsettled = FALSE /\ lateUrl = FALSE

Switching == {r \in Switchers : switch[r].at # "idle"}
Starting == {r \in Switching : switch[r].start}
Unborn == {c \in Children : child[c] = "none"}

\* From its first look at the settings to the last a request holds the loop.
LoopFree == \A r \in Switchers : switch[r].at \notin {"read", "checked"}

\* The request begins: whom does it meet?
Meet(isStart) ==
    /\ twoStarts' = (twoStarts \/ (isStart /\ Starting # {}))
    /\ alone' = (Switching = {} /\ saver.at = "idle")
    /\ unsettled' = (unsettled \/ ~alone')
    /\ UNCHANGED lateUrl

\* get_device() in the request, right after its last await.
Reading(row) == [row EXCEPT !.at = "read", !.seen = config, !.stale = FALSE]

\* Seeded fault: start() keeps the url of the tunnel before.
Launch_KeepsUrl(row) ==
    tunnelMode' = row.mode /\ UNCHANGED url

\* start() after stop(): the mode is set and the url forgotten before the spawn.
Launch(row) ==
    tunnelMode' = row.mode /\ url' = NoChild

\* What follows stop() in each of the requests.
AfterStop(r, row) ==
    IF row.start
    THEN switch' = [switch EXCEPT ![r] = [row EXCEPT !.at = "spawning"]] /\ Launch(row)
    ELSE switch' = [switch EXCEPT ![r] = Reading(row)] /\ tunnelMode' = "none" /\ UNCHANGED url

\* Seeded fault: stop() only forgets a child and does not terminate it.
Terminated_Forgotten(c) == child

\* proc.terminate()
Terminated(c) == [child EXCEPT ![c] = "ending"]

\* stop(): at once if no child is running, else its end is awaited.
Stop(r, row) ==
    /\ proc' = NoChild
    /\ IF proc # NoChild /\ child[proc] = "running"
       THEN /\ child' = Terminated(proc)
            /\ switch' = [switch EXCEPT ![r] = [row EXCEPT !.at = "stopping"]]
            /\ tunnelMode' = "none"
            /\ UNCHANGED url
       ELSE /\ AfterStop(r, row)
            /\ UNCHANGED child

\* POST /remote/tunnel/start; a named tunnel needs a stored token.
TunnelStart(r) ==
    /\ switch[r].at = "idle" /\ LoopFree
    /\ Cardinality(Starting) < Cardinality(Unborn)
    /\ \E m \in Modes :
         /\ m = "named" => config.token
         /\ Stop(r, [NoSwitch EXCEPT !.start = TRUE, !.mode = m])
    /\ Meet(TRUE)
    /\ UNCHANGED <<quick, scansDue, read, saver, config>>

\* POST /remote/tunnel/stop
TunnelStop(r) ==
    /\ switch[r].at = "idle" /\ LoopFree
    /\ Stop(r, NoSwitch)
    /\ Meet(FALSE)
    /\ UNCHANGED <<quick, scansDue, read, saver, config>>

\* The old child has ended, or 5 seconds are over and it is sent a kill.
OldChildEnds(r) ==
    /\ switch[r].at = "stopping" /\ LoopFree
    /\ AfterStop(r, switch[r])
    /\ UNCHANGED <<child, quick, proc, scansDue, read, saver, config, tunnelHistory>>

\* create_subprocess_exec() returns: a quick tunnel gets a task to read its output.
Spawned(r) ==
    /\ switch[r].at = "spawning" /\ LoopFree
    /\ LET c == CHOOSE c \in Unborn : \A d \in Unborn : c <= d
           isQuick == switch[r].mode = "quick"
       IN  /\ child' = [child EXCEPT ![c] = "running"]
           /\ proc' = c
           /\ quick' = IF isQuick THEN quick \cup {c} ELSE quick
           /\ scansDue' = IF isQuick THEN scansDue + 1 ELSE scansDue
    /\ switch' = [switch EXCEPT ![r] = Reading(@)]
    /\ UNCHANGED <<tunnelMode, url, read, saver, config, tunnelHistory>>

\* It raises, cloudflared not being there: the request fails, the mode stays set.
SpawnFails(r) ==
    /\ switch[r].at = "spawning" /\ LoopFree
    /\ switch' = [switch EXCEPT ![r] = NoSwitch]
    /\ alone' = FALSE /\ unsettled' = TRUE
    /\ UNCHANGED <<child, quick, proc, tunnelMode, url, scansDue, read, saver, config,
                   twoStarts, lateUrl>>

\* update_device(): a save that came between fails the request with a 409, ...
CheckSwitch(r) ==
    /\ switch[r].at = "read"
    /\ switch' = [switch EXCEPT ![r] = IF @.stale THEN NoSwitch ELSE [@ EXCEPT !.at = "checked"]]
    /\ UNCHANGED <<child, quick, proc, tunnelMode, url, scansDue, read, saver, config, tunnelHistory>>

\* Seeded fault: a stop leaves tunnel_enabled as it was.
Switched_StopKept(row) ==
    IF row.start THEN [row.seen EXCEPT !.enabled = TRUE, !.mode = row.mode] ELSE row.seen

\* tunnel_enabled and tunnel_mode as the request leaves them.
Switched(row) ==
    IF row.start THEN [row.seen EXCEPT !.enabled = TRUE, !.mode = row.mode]
    ELSE [row.seen EXCEPT !.enabled = FALSE]

\* ... and otherwise all of the settings read are written.
WriteSwitch(r) ==
    /\ switch[r].at = "checked"
    /\ config' = Switched(switch[r])
    /\ switch' = [switch EXCEPT ![r] = NoSwitch]
    /\ saver' = [saver EXCEPT !.stale = (saver.at = "read")]
    /\ alone' = FALSE /\ unsettled' = (unsettled /\ ~alone)
    /\ UNCHANGED <<child, quick, proc, tunnelMode, url, scansDue, read, twoStarts, lateUrl>>

\* put_remote() and provision(): the same read, check and write, in a thread of its own,
\* with the token that is stored.  update_device() has the whole of the settings in its
\* body, with the version its client read; one that is old when it comes gets its 409 and
\* changes nothing.
SaveReads ==
    /\ saver.at = "idle"
    /\ \E keeps \in {config.token, FALSE} :
         saver' = [at |-> "read", keeps |-> keeps, stale |-> FALSE]
    /\ alone' = FALSE /\ unsettled' = (unsettled \/ Switching # {})
    /\ UNCHANGED <<child, quick, proc, tunnelMode, url, scansDue, read, switch, config,
                   twoStarts, lateUrl>>

SaveChecks ==
    /\ saver.at = "read"
    /\ saver' = IF saver.stale THEN NotSaving ELSE [saver EXCEPT !.at = "checked"]
    /\ UNCHANGED <<child, quick, proc, tunnelMode, url, scansDue, read, switch, config, tunnelHistory>>

\* All of the settings are written.  In put_remote() the switch and the mode are the body's
\* or as read, and the token is kept unless one is given; provision() writes them as it
\* read them; update_device() writes what its body has.
SaveWrites ==
    /\ saver.at = "checked"
    /\ \E body \in Configs :
         /\ saver.keeps => body.token
         /\ config' = body
    /\ saver' = NotSaving
    /\ switch' = [r \in Switchers |-> [switch[r] EXCEPT !.stale = (switch[r].at = "read")]]
    /\ unsettled' = (unsettled \/ config'.enabled # config.enabled)
    /\ UNCHANGED <<child, quick, proc, tunnelMode, url, scansDue, read, twoStarts, alone, lateUrl>>

\* Seeded fault: the output of a named tunnel is read as well.
Captured_Any(c) == c # NoChild

\* not proc or not proc.stdout
Captured(c) == c \in quick

\* _scan_url() runs for the first time and looks up whose output it reads.
ScanBegins ==
    /\ scansDue > 0 /\ LoopFree
    /\ scansDue' = scansDue - 1
    /\ read' = IF Captured(proc) THEN read \cup {proc} ELSE read
    /\ UNCHANGED <<child, quick, proc, tunnelMode, url, switch, saver, config, tunnelHistory>>

\* A line with a url; what a child wrote can be read after its end.
ScanFindsUrl(c) ==
    /\ c \in read /\ LoopFree
    /\ url' = c
    /\ lateUrl' = (lateUrl \/ c # proc)
    /\ UNCHANGED <<child, quick, proc, tunnelMode, scansDue, read, switch, saver, config,
                   twoStarts, alone, unsettled>>

\* Its output ends with the child.
ScanEnds(c) ==
    /\ c \in read /\ child[c] = "gone" /\ LoopFree
    /\ read' = read \ {c}
    /\ UNCHANGED <<child, quick, proc, tunnelMode, url, scansDue, switch, saver, config, tunnelHistory>>

\* A child ends when it is told to, or by itself.
ChildExits(c) ==
    /\ child[c] \in {"running", "ending"}
    /\ child' = [child EXCEPT ![c] = "gone"]
    /\ UNCHANGED <<quick, proc, tunnelMode, url, scansDue, read, switch, saver, config, tunnelHistory>>

\* The service goes down, its requests and children with it, and starts again:
\* _autostart_tunnel(), before it takes requests.
Startable == config.mode = "quick" \/ config.token
Reboot ==
    /\ LET dead == [c \in Children |-> IF child[c] = "none" THEN "none" ELSE "gone"]
       IN  IF config.enabled /\ Startable
           THEN /\ tunnelMode' = config.mode
                /\ \/ /\ Unborn # {}
                      /\ LET c == CHOOSE c \in Unborn : \A d \in Unborn : c <= d
                         IN  /\ child' = [dead EXCEPT ![c] = "running"]
                             /\ proc' = c
                             /\ quick' = IF config.mode = "quick" THEN quick \cup {c} ELSE quick
                             /\ scansDue' = IF config.mode = "quick" THEN 1 ELSE 0
                   \/ /\ child' = dead /\ proc' = NoChild
                      /\ scansDue' = 0 /\ UNCHANGED quick
           ELSE /\ tunnelMode' = "none"
                /\ child' = dead /\ proc' = NoChild
                /\ scansDue' = 0 /\ UNCHANGED quick
    /\ url' = NoChild /\ read' = {}
    /\ switch' = [r \in Switchers |-> NoSwitch]
    /\ saver' = NotSaving
    /\ alone' = FALSE /\ unsettled' = (config.enabled /\ proc' = NoChild)
    /\ UNCHANGED <<config, twoStarts, lateUrl>>

TunnelNext ==
    \/ \E r \in Switchers :
         \/ TunnelStart(r) \/ TunnelStop(r) \/ OldChildEnds(r) \/ Spawned(r) \/ SpawnFails(r)
         \/ CheckSwitch(r) \/ WriteSwitch(r)
    \/ SaveReads \/ SaveChecks \/ SaveWrites
    \/ ScanBegins
    \/ \E c \in Children : ScanFindsUrl(c) \/ ScanEnds(c) \/ ChildExits(c)
    \/ Reboot

TunnelSpec == TunnelInit /\ [][TunnelNext]_tunnelVars

-----------------------------------------------------------------------------
\* Only captured output is read.
TunnelTypeOK ==
    /\ child \in [Children -> {"none", "running", "ending", "gone"}]
    /\ read \subseteq quick /\ quick \subseteq Children \ Unborn
    /\ proc \in Children \cup {NoChild}
    /\ tunnelMode \in Modes \cup {"none"}
    /\ url \in quick \cup {NoChild}
    /\ scansDue \in 0..MaxChildren
    /\ switch \in [Switchers -> SwitchRows]
    /\ saver \in SaverRows
    /\ config \in Configs
    /\ tunnelHistory \in BOOLEAN \X BOOLEAN \X BOOLEAN \X BOOLEAN

\* tunnel.py, start() and stop(): a child that is running and was not told to end is
\* the one the service knows and can stop, unless two starts overlapped.
NoForgottenTunnel ==
    twoStarts \/ \A c \in Children : child[c] = "running" => c = proc

\* tunnel.py, _scan_url(): the url shown of a tunnel is its own, unless the last
\* lines of an old child came in after the new one was begun, or two starts overlapped.
UrlIsItsOwn ==
    lateUrl \/ twoStarts \/ (proc # NoChild /\ url # NoChild => url = proc)

\* admin.py:722: once all requests are served the service holds a tunnel where the
\* settings say so, and after a reboot too.  A request that met another, a tunnel that
\* could not be started, or a save that changed tunnel_enabled itself (it starts and stops
\* nothing) may leave it otherwise, until the next switch that is alone, or reboot.
EnabledAsSaved ==
    unsettled \/ Switching # {}
    \/ (proc # NoChild <=> config.enabled)
=============================================================================
