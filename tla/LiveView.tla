------------------------------ MODULE LiveView ------------------------------
(***************************************************************************)
(* The live view: api/routers/devices.py and live/mediamtx_client.py keep  *)
(* a relay path in the media server for every active camera.  A request    *)
(* commits the device first and calls the media server afterwards; a call  *)
(* that fails is forgotten.  The media server loses its paths when it is   *)
(* restarted, and scripts/sync_live_view_paths.py then registers them.     *)
(***************************************************************************)
EXTENDS Naturals, FiniteSets

CONSTANTS
    Gear,         \* device ids
    Cameras,      \* those of them that are cameras
    Editors,      \* threads of the API server
    Resync,       \* the script that the media server's service starts
    Nowhere,      \* NULL for an rtsp_url, and the absence of a path
    Urls,         \* rtsp_urls
    OpenUrls,     \* those that have userinfo in them
    MaxEdits,     \* bound: requests
    MaxMishaps,   \* bound: calls that fail and handlers that die
    MaxRestarts   \* bound: restarts of the media server

ASSUME LiveViewAssumption ==
    /\ Gear # {} /\ Cameras \subseteq Gear /\ OpenUrls \subseteq Urls /\ Nowhere \notin Urls
    /\ Resync \notin Editors
    /\ MaxEdits \in Nat /\ MaxMishaps \in Nat /\ MaxRestarts \in Nat

VARIABLES
    gear,       \* the rows of devices and of credentials
    path,       \* the source of every relay path of the media server
    editor,     \* the local variables of every handler and of the script
    edits,      \* number of requests
    mishaps,    \* number of calls that failed and handlers that died
    restarts,   \* number of restarts of the media server
    astray      \* history: devices whose path may differ, until it is set again

liveVars == <<gear, path, editor, edits, mishaps, restarts, astray>>

\* login: credentials has a username, not an empty one, and a secret.
Gone == [exists |-> FALSE, active |-> FALSE, url |-> Nowhere, login |-> FALSE]

NoPath == [url |-> Nowhere, login |-> FALSE]

\* The device being synced, those to be synced next, the row it has seen, the
\* rows the script has read, and the address it is about to register.
AtRest == [stage |-> "idle", on |-> CHOOSE d \in Gear : TRUE, todo |-> {}, row |-> Gone,
           rows |-> [d \in Gear |-> Gone], source |-> NoPath]

LiveInit ==
    /\ gear = [d \in Gear |-> Gone]
    /\ path = [d \in Gear |-> NoPath]
    /\ editor = [e \in Editors \cup {Resync} |-> AtRest]
    /\ edits = 0 /\ mishaps = 0 /\ restarts = 0
    /\ astray = {}

\* The devices that somebody is working on.
Working(e) == IF editor[e].stage = "idle" THEN {}
              ELSE editor[e].todo \cup
                   (IF editor[e].stage = "next" THEN {} ELSE {editor[e].on})

Others(e) == UNION {Working(f) : f \in (Editors \cup {Resync}) \ {e}}

\* _sync_live_view's first test.
HasLiveView(d, row) == d \in Cameras /\ row.url # Nowhere /\ row.active

\* build_authenticated_rtsp_url: the login, unless the url has one of its own.
SourceOf(row, login) == [url |-> row.url, login |-> login /\ row.url \notin OpenUrls]

-----------------------------------------------------------------------------
\* A request commits its changes to ds.  astray: who works on the same device
\* may still register what it has seen; who commits alone and then registers
\* or removes the path puts it right.
Commit(e, ds, rows, repaired, left) ==
    /\ editor[e].stage = "idle" /\ e \in Editors
    /\ edits < MaxEdits
    /\ edits' = edits + 1
    /\ gear' = rows
    /\ astray' = (astray \ (repaired \ Others(e))) \cup (ds \cap Others(e)) \cup left
    /\ UNCHANGED <<path, mishaps, restarts>>

\* create_device for one new device, bulk_import for several, in one commit.
Create(e, ds, row) ==
    /\ ds # {} /\ \A d \in ds : ~gear[d].exists
    /\ Commit(e, ds, [d \in Gear |-> IF d \in ds THEN row ELSE gear[d]], {}, {})
    /\ editor' = [editor EXCEPT ![e] = [AtRest EXCEPT !.stage = "next", !.todo = ds]]

\* update_device: any column; an empty username is stored like any other, and
\* leaves the camera without a login.  A camera that is deactivated this way, or
\* loses its url, keeps its path.
Update(e, d, row) ==
    /\ gear[d].exists /\ row.exists
    /\ Commit(e, {d}, [gear EXCEPT ![d] = row],
              IF HasLiveView(d, row) THEN {d} ELSE {},
              IF HasLiveView(d, row) \/ path[d] = NoPath THEN {} ELSE {d})
    /\ editor' = [editor EXCEPT ![e] = [AtRest EXCEPT !.stage = "next", !.todo = {d}]]

\* deactivate_device: soft deletion.
Deactivate(e, d) ==
    /\ gear[d].exists
    /\ Commit(e, {d}, [gear EXCEPT ![d].active = FALSE], {d}, {})
    /\ editor' = [editor EXCEPT ![e] = [AtRest EXCEPT !.stage = "remove", !.on = d]]

-----------------------------------------------------------------------------
\* db.refresh for a request; the script goes by the rows it read at first.
Refresh(e, d) ==
    LET row == IF e = Resync THEN editor[e].rows[d] ELSE gear[d]
    IN  /\ editor[e].stage = "next" /\ d \in editor[e].todo
        /\ editor' = [editor EXCEPT
             ![e].todo = @ \ {d}, ![e].on = d, ![e].row = row,
             ![e].stage = IF HasLiveView(d, row) THEN "login" ELSE "next"]
        /\ UNCHANGED <<gear, path, edits, mishaps, restarts, astray>>

\* The handler answers after its audit row (Accounts: RecordAudit).
Finish(e) ==
    /\ editor[e].stage = "next" /\ editor[e].todo = {}
    /\ editor' = [editor EXCEPT ![e] = AtRest]
    /\ UNCHANGED <<gear, path, edits, mishaps, restarts, astray>>

\* get_device_credentials, in a session of its own.
ReadLogin(e) ==
    /\ editor[e].stage = "login"
    /\ editor' = [editor EXCEPT ![e].stage = "add",
                                ![e].source = SourceOf(editor[e].row, gear[editor[e].on].login)]
    /\ UNCHANGED <<gear, path, edits, mishaps, restarts, astray>>

SetPath(e, next, source) ==
    /\ path' = [path EXCEPT ![editor[e].on] = source]
    /\ editor' = [editor EXCEPT ![e].stage = next]
    /\ UNCHANGED <<gear, edits, mishaps, restarts, astray>>

\* Plausible slip: an existing path is taken for a registered one.
AddOnlyNew(e) ==
    /\ editor[e].stage = "add"
    /\ SetPath(e, "next", IF path[editor[e].on] = NoPath THEN editor[e].source
                          ELSE path[editor[e].on])

\* register_path: POST creates the path, and a 400 says that there is one.
AddPath(e) ==
    /\ editor[e].stage = "add"
    /\ IF path[editor[e].on] = NoPath THEN SetPath(e, "next", editor[e].source)
       ELSE SetPath(e, "patch", path[editor[e].on])

\* PATCH; the path may be gone by now, and the 404 is swallowed.
PatchPath(e) ==
    /\ editor[e].stage = "patch"
    /\ SetPath(e, "next", IF path[editor[e].on] = NoPath THEN NoPath ELSE editor[e].source)

RemovePath(e) ==
    /\ editor[e].stage = "remove"
    /\ SetPath(e, "next", NoPath)

Mishap ==
    /\ mishaps < MaxMishaps
    /\ mishaps' = mishaps + 1

\* The media server refuses, is down, or is too slow: any HTTPError is passed
\* over.  (What a call did that timed out is what the call of a step does.)
CallFails(e) ==
    /\ Mishap
    /\ editor[e].stage \in {"add", "patch", "remove"}
    /\ astray' = astray \cup {editor[e].on}
    /\ editor' = [editor EXCEPT ![e].stage = "next"]
    /\ UNCHANGED <<gear, path, edits, restarts>>

EditorDies(e) ==
    /\ Mishap
    /\ editor[e].stage # "idle"
    /\ astray' = astray \cup Working(e)
    /\ editor' = [editor EXCEPT ![e] = AtRest]
    /\ UNCHANGED <<gear, path, edits, restarts>>

\* The service is restarted: no path survives, and ExecStartPost's script starts.
Restart ==
    /\ restarts < MaxRestarts
    /\ restarts' = restarts + 1
    /\ path' = [d \in Gear |-> NoPath]
    /\ editor' = [editor EXCEPT ![Resync] = [AtRest EXCEPT !.stage = "start", !.todo = Gear]]
    /\ astray' = UNION {Working(e) : e \in Editors}
    /\ UNCHANGED <<gear, edits, mishaps>>

\* The script reads the active cameras, once for all.
BeginResync ==
    /\ editor[Resync].stage = "start"
    /\ editor' = [editor EXCEPT ![Resync].stage = "next", ![Resync].rows = gear,
                    ![Resync].todo = {d \in Cameras : gear[d].exists /\ gear[d].active}]
    /\ UNCHANGED <<gear, path, edits, mishaps, restarts, astray>>

LiveRow == [exists : {TRUE}, active : BOOLEAN, url : Urls \cup {Nowhere}, login : BOOLEAN]

LiveNext ==
    \/ Restart \/ BeginResync
    \/ \E e \in Editors \cup {Resync} :
         \/ Finish(e) \/ ReadLogin(e) \/ AddPath(e) \/ PatchPath(e) \/ RemovePath(e)
         \/ CallFails(e) \/ EditorDies(e)
         \/ \E d \in Gear : Refresh(e, d) \/ Deactivate(e, d)
         \/ \E row \in LiveRow :
              \/ \E d \in Gear : Update(e, d, row)
              \/ \E ds \in SUBSET Gear : row.active /\ Create(e, ds, row)

LiveSpec == LiveInit /\ [][LiveNext]_liveVars

-----------------------------------------------------------------------------
LiveStage == {"idle", "start", "next", "login", "add", "patch", "remove"}

Source == [url : Urls \cup {Nowhere}, login : BOOLEAN]

LiveTypeOK ==
    /\ gear \in [Gear -> LiveRow \cup {Gone}]
    /\ path \in [Gear -> Source]
    /\ \A e \in Editors \cup {Resync} :
         /\ editor[e].stage \in LiveStage /\ editor[e].on \in Gear
         /\ editor[e].todo \subseteq Gear /\ editor[e].row \in LiveRow \cup {Gone}
         /\ editor[e].rows \in [Gear -> LiveRow \cup {Gone}]
         /\ editor[e].source \in Source
    /\ edits \in 0 .. MaxEdits /\ mishaps \in 0 .. MaxMishaps
    /\ restarts \in 0 .. MaxRestarts /\ astray \subseteq Gear

\* When nobody works on a device, the media server relays exactly what the
\* database says, with the credentials of now: an active camera has its path
\* and no other device has one.  The exceptions are devices for which a call
\* failed, a handler died, two requests overlapped, or PUT switched the live
\* view off, and only until a request or the script has set their path again.
PathsFollowDevices ==
    \A d \in Gear :
        d \notin astray /\ (\A e \in Editors \cup {Resync} : d \notin Working(e)) =>
            path[d] = IF HasLiveView(d, gear[d]) THEN SourceOf(gear[d], gear[d].login) ELSE NoPath
=============================================================================
