----------------------------- MODULE MusicPlaylists -----------------------------
(***************************************************************************)
(* The shared playlists of an area: the tools and the commands that change them, each   *)
(* in a transaction that locks the row of its playlist, and that read them by several     *)
(* statements.  Other calls may come between any two statements; a statement sees what     *)
(* is committed when it is executed.                                                      *)
(***************************************************************************)
EXTENDS Naturals, FiniteSets, Sequences

CONSTANTS
    Lists, Calls, MaxEntries,       \* bounds: playlists, calls (numbers from 1), entries that are ever made
    MaxTracks,                      \* max_playlist_tracks
    MaxQueue,                       \* max_queue_length
    Budgets                         \* bounds: how often each operation is called

VARIABLES
    list,       \* the rows of music_playlists: the playlists that exist, with their names
    track,      \* the rows of music_playlist_tracks
    call,       \* the calls
    queue,      \* the entries of the playlist that was loaded last
    made,       \* the entries that were made
    left        \* what is still called

vars == <<list, track, call, queue, made, left>>

Entries == 1 .. MaxEntries
Names == Lists
Operations == {"create", "import", "append", "remove", "rename", "delete", "clear", "load"}
ListRow == [is : {"none", "there", "deleted"}, name : Names]
TrackRow == [id : Entries, list : Lists, position : 1 .. MaxTracks + 1]
CallState ==
    [do : Operations \cup {"none"}, list : Lists, name : Names, entry : Entries \cup {0}, position : 0 .. MaxTracks + 1,
     has : BOOLEAN, at : {"idle", "track", "get", "entries", "lock", "look", "commit", "replace"},
     seen : SUBSET TrackRow]

TypeOK ==
    /\ list \in [Lists -> ListRow] /\ call \in [Calls -> CallState] /\ made \in Entries \cup {0}
    /\ track \subseteq TrackRow /\ \A r \in track : list[r.list].is = "there"

FirstList == CHOOSE p \in Lists : TRUE
NoCall == [do |-> "none", list |-> FirstList, name |-> FirstList, entry |-> 0, position |-> 0,
           has |-> FALSE, at |-> "idle", seen |-> {}]

Init ==
    /\ list = [p \in Lists |-> [is |-> IF p = FirstList THEN "there" ELSE "none", name |-> p]] /\ track = {}
    /\ call = [c \in Calls |-> NoCall] /\ queue = <<>> /\ made = 0
    /\ left \in Budgets

-----------------------------------------------------------------------------
(* ---- what a statement sees ---- *)

Tracks(p) == {r \in track : r.list = p}
Count(p) == Cardinality(Tracks(p))
Existing == {p \in Lists : list[p].is = "there"}
Unused == {p \in Lists : list[p].is = "none"}
(* UniqueConstraint(area_id, normalized_name). *)
Taken(name, p) == \E q \in Existing \ {p} : list[q].name = name

(* UniqueConstraint(playlist_id, position), when a transaction commits. *)
Committable(rows) == \A r, s \in rows : r.list = s.list /\ r.position = s.position => r = s

(* The entries of a playlist in their order. *)
InOrder(rows) ==
    CHOOSE q \in [1 .. Cardinality(rows) -> rows] :
        \A i, j \in DOMAIN q : i < j => q[i].position < q[j].position

-----------------------------------------------------------------------------
(* ---- the calls ---- *)

Over(c) == call' = [call EXCEPT ![c] = NoCall]
Goes(c, at) == call' = [call EXCEPT ![c].at = at]
At(c, do, at) == call[c].do = do /\ call[c].at = at

Calling(c, do, p, name, entry, at) ==
    /\ call[c].at = "idle" /\ left[do] > 0 /\ left' = [left EXCEPT ![do] = @ - 1]
    /\ call' = [call EXCEPT ![c] = [NoCall EXCEPT !.do = do, !.list = p, !.name = name,
                                                  !.entry = entry, !.at = at]]
    /\ UNCHANGED <<list, track, queue, made>>

CreateTool(c) ==
    \E name \in Names : Calling(c, "create", FirstList, name, 0, "commit")
(* The catalog of another service is read first. *)
ImportTool(c) ==
    \E name \in Names : Calling(c, "import", FirstList, name, 0, "track")
(* The track is looked up first. *)
AppendTool(c) == \E p \in Existing : Calling(c, "append", p, p, 0, "track")
(* By the id of an entry that was shown, or by its position, which is looked up afresh. *)
RemoveTool(c) ==
    \/ \E r \in track : Calling(c, "remove", r.list, r.list, r.id, "lock")
    \/ \E p \in Existing : Calling(c, "remove", p, p, 0, "get")
RenameTool(c) == \E p \in Existing, name \in Names : Calling(c, "rename", p, name, 0, "lock")
DeleteTool(c) == \E p \in Existing : Calling(c, "delete", p, p, 0, "lock")
ClearTool(c) == \E p \in Existing : Calling(c, "clear", p, p, 0, "lock")
LoadTool(c) == \E p \in Existing : Calling(c, "load", p, p, 0, "get")

(* MusicRequestService.lookup, search; or nothing is found. *)
LooksUp(c) ==
    /\ call[c].at = "track"
    /\ \/ Goes(c, IF call[c].do = "append" THEN "lock" ELSE "commit")
       \/ Over(c)
    /\ UNCHANGED <<list, track, queue, made, left>>

(* get: the playlist, by one statement ... *)
Gets(c) ==
    /\ call[c].at = "get"
    /\ IF call[c].list \in Existing THEN Goes(c, "entries") ELSE Over(c)
    /\ UNCHANGED <<list, track, queue, made, left>>

(* load: an empty playlist and one that is too large are refused. *)
CannotLoad(rows) == rows = {} \/ Cardinality(rows) > MaxQueue

(* ... and its entries, by another. *)
GetsEntries(c) ==
    /\ call[c].at = "entries"
    /\ LET rows == Tracks(call[c].list)
       IN  \/ call[c].do = "load" /\ CannotLoad(rows) /\ Over(c)
           \/ /\ call[c].do = "load" /\ ~CannotLoad(rows)
              /\ call' = [call EXCEPT ![c].at = "replace", ![c].seen = rows]
           \/ call[c].do = "remove" /\ rows = {} /\ Over(c)
           \/ /\ call[c].do = "remove"
              /\ \E r \in rows : call' = [call EXCEPT ![c].at = "lock", ![c].entry = r.id,
                                                      ![c].position = r.position]
    /\ UNCHANGED <<list, track, queue, made, left>>

(* MusicRequestService.replace_queue. *)
Replaces(c) ==
    /\ call[c].at = "replace" /\ Over(c)
    /\ queue' = InOrder(call[c].seen)
    /\ UNCHANGED <<list, track, made, left>>

-----------------------------------------------------------------------------
(* ---- the transactions ---- *)

(* _locked_playlist: one transaction has the row at a time. *)
MayLock(c) == \A d \in Calls : call[d].has => call[d].list # call[c].list

LocksPlaylist(c) ==
    /\ call[c].at = "lock" /\ MayLock(c)
    /\ IF call[c].list \in Existing
       THEN call' = [call EXCEPT ![c].has = TRUE,
                                 ![c].at = IF call[c].do \in {"append", "remove"} THEN "look" ELSE "commit"]
       ELSE Over(c)
    /\ UNCHANGED <<list, track, queue, made, left>>

(* append: the count, and room for one more. *)
CountsTracks(c) ==
    /\ At(c, "append", "look")
    /\ IF Count(call[c].list) >= MaxTracks THEN Over(c)
       ELSE call' = [call EXCEPT ![c].at = "commit", ![c].position = Count(call[c].list) + 1]
    /\ UNCHANGED <<list, track, queue, made, left>>

(* Faulty: the position is the one that the caller was shown. *)
FindsByPosition(c) ==
    /\ At(c, "remove", "look")
    /\ \/ /\ \A r \in Tracks(call[c].list) : r.position # call[c].position /\ r.id # call[c].entry
          /\ Over(c)
       \/ \E r \in Tracks(call[c].list) :
             /\ r.position = call[c].position \/ (call[c].position = 0 /\ r.id = call[c].entry)
             /\ call' = [call EXCEPT ![c].at = "commit", ![c].position = r.position]
    /\ UNCHANGED <<list, track, queue, made, left>>

(* remove: where the entry is, unless it is gone. *)
FindsEntry(c) ==
    /\ At(c, "remove", "look")
    /\ \/ (\A r \in Tracks(call[c].list) : r.id # call[c].entry) /\ Over(c)
       \/ \E r \in Tracks(call[c].list) :
             /\ r.id = call[c].entry
             /\ call' = [call EXCEPT ![c].at = "commit", ![c].position = r.position]
    /\ UNCHANGED <<list, track, queue, made, left>>

(* append: the entry, unless its position is taken. *)
CommitsAppend(c) ==
    /\ At(c, "append", "commit") /\ Over(c) /\ made < MaxEntries
    /\ LET rows == track \cup {[id |-> made + 1, list |-> call[c].list, position |-> call[c].position]}
       IN  IF Committable(rows) /\ call[c].list \in Existing
           THEN track' = rows /\ made' = made + 1
           ELSE UNCHANGED <<track, made>>
    /\ UNCHANGED <<list, queue, left>>

(* Without the row, the rows behind it one place further ahead. *)
Closed(rows, p, position) ==
    {IF r.list = p /\ r.position > position THEN [r EXCEPT !.position = @ - 1] ELSE r
        : r \in {s \in rows : ~(s.list = p /\ s.position = position)}}

CommitsRemove(c) ==
    /\ At(c, "remove", "commit") /\ Over(c)
    /\ track' = Closed(track, call[c].list, call[c].position)
    /\ UNCHANGED <<list, queue, made, left>>

CommitsRename(c) ==
    /\ At(c, "rename", "commit") /\ Over(c)
    /\ list' = IF Taken(call[c].name, call[c].list) THEN list
               ELSE [list EXCEPT ![call[c].list].name = call[c].name]
    /\ UNCHANGED <<track, queue, made, left>>

CommitsDelete(c) ==
    /\ At(c, "delete", "commit") /\ Over(c)
    /\ list' = [list EXCEPT ![call[c].list].is = "deleted"]
    /\ track' = track \ Tracks(call[c].list)
    /\ UNCHANGED <<queue, made, left>>

CommitsClear(c) ==
    /\ At(c, "clear", "commit") /\ Over(c)
    /\ track' = track \ Tracks(call[c].list)
    /\ UNCHANGED <<list, queue, made, left>>

(* A playlist with an id of its own, unless the name is taken. *)
Creates(c, size) ==
    /\ Over(c) /\ made + size <= MaxEntries
    /\ \E p \in Unused :
          IF Taken(call[c].name, p) THEN UNCHANGED <<list, track, made>>
          ELSE /\ list' = [list EXCEPT ![p] = [is |-> "there", name |-> call[c].name]]
               /\ track' = track \cup {[id |-> made + i, list |-> p, position |-> i] : i \in 1 .. size}
               /\ made' = made + size
    /\ UNCHANGED <<queue, left>>

CommitsCreate(c) == At(c, "create", "commit") /\ Creates(c, 0)

(* create_with_tracks: the playlist with every entry. *)
CommitsImport(c) == At(c, "import", "commit") /\ \E size \in 1 .. MaxTracks : Creates(c, size)

(* The time of the call is up: its transaction is rolled back. *)
TimesOut(c) ==
    /\ call[c].at # "idle" /\ left.timeouts > 0 /\ left' = [left EXCEPT !.timeouts = @ - 1] /\ Over(c)
    /\ UNCHANGED <<list, track, queue, made>>

Call(c) ==
    \/ CreateTool(c) \/ ImportTool(c) \/ AppendTool(c) \/ RemoveTool(c) \/ RenameTool(c)
    \/ DeleteTool(c) \/ ClearTool(c) \/ LoadTool(c) \/ LooksUp(c) \/ Gets(c) \/ GetsEntries(c) \/ Replaces(c)
    \/ LocksPlaylist(c) \/ CountsTracks(c) \/ FindsEntry(c)
    \/ CommitsAppend(c) \/ CommitsRemove(c) \/ CommitsRename(c) \/ CommitsDelete(c) \/ CommitsClear(c)
    \/ CommitsCreate(c) \/ CommitsImport(c) \/ TimesOut(c)

Next == \E c \in Calls : Call(c)

Spec == Init /\ [][Next]_vars

-----------------------------------------------------------------------------
(* The positions of a playlist are 1, 2, ..., without a gap and within the limit, whatever  *)
(* is added, removed, cleared and deleted at once (playlist_repository.py:144-158, 278-291);  *)
(* after a gap the next entry would collide with the last one.                             *)
PlaylistsAreWhole ==
    \A p \in Lists :
        Count(p) <= MaxTracks /\ {r.position : r \in Tracks(p)} = 1 .. Count(p)

(* A removal takes the entry that its caller was shown and no other, although the          *)
(* positions have moved since (command_playlists.py:60-73, playlist_repository.py:263-299);  *)
(* the others keep their order.                                                           *)
RemovesWhatWasShown ==
    [][\A c \in Calls :
          At(c, "remove", "commit") /\ call'[c].at = "idle" /\ track' # track =>
              /\ {r.id : r \in track} \ {r.id : r \in track'} = {call[c].entry}
              /\ \A r, s \in track : \A u, v \in track' :
                    r.list = s.list /\ r.id = u.id /\ s.id = v.id /\ r.position < s.position =>
                        u.position < v.position]_vars

(* A queue that is loaded has the entries of one playlist as they stood together, and     *)
(* never nothing (playlists.py:233-251).                                                  *)
LoadsOneList ==
    [][\A c \in Calls : At(c, "load", "replace") /\ call'[c].at = "idle" /\ left' = left =>
          /\ queue' # <<>>
          /\ \A i \in DOMAIN queue' : queue'[i].position = i /\ queue'[i].list = queue'[1].list]_vars
=============================================================================
