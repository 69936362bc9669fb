-------------------------------- MODULE AppStore --------------------------------
(***************************************************************************)
(* What the application keeps from one start to the next: the command      *)
(* history, the saved sessions, the favourites and the switches of the     *)
(* main window in setting.json (AppData of src/data.py, HistoryModel of    *)
(* src/history.py), and the recent connections in setting.ini.             *)
(*                                                                         *)
(* setting.json is written on "Save" and on the way out, and opening it    *)
(* for writing empties it: a process that is killed before the text is     *)
(* complete leaves a file that the next start cannot read, and a start     *)
(* that cannot read the file takes every default.  setting.ini is written  *)
(* by QSettings, as a whole, at each change.                               *)
(*                                                                         *)
(* Favourites are a set of requests here (their tree is in Favorites); the *)
(* dialog that edits the saved sessions is in DeviceList.  The language,   *)
(* the docks and the search terms are left out, as is the size over which  *)
(* a command is not recorded.                                              *)
(***************************************************************************)
EXTENDS Integers, Sequences, SequencesExt, FiniteSets

CONSTANTS Cmds,        \* the XML of a request
          Options,     \* the options of a session
          ConnName,    \* "user@host:port" of the options
          Favs,        \* favourites
          MaxHistory,  \* 1000 in the code
          MaxRecents,  \* 20 in the code
          Unset,       \* a switch the file does not hold
          None,        \* no file was read, no file was written
          MaxEdits,    \* changes in one life of the process, a bound
          MaxStarts    \* starts after the first, a bound

Keys == {"status_bar", "satatus_bar", "tool_bar"}
Types == {"session", "history", "favorite", "ui-config"}
UiTypes == [Keys -> BOOLEAN \cup {Unset}]
NoUi == [k \in Keys |-> Unset]
Empty == [session |-> << >>, history |-> << >>, favorite |-> {}, ui |-> NoUi]
Content == [session : Seq(Options), history : Seq(Cmds), favorite : SUBSET Favs,
            ui : UiTypes]
Kinds == {"none", "torn", "whole"}

(* setting.json when it is missing or cannot be read: a start goes on with *)
(* an empty dictionary either way.                                         *)
Lost(kind) == [kind |-> kind, data |-> Empty]

ASSUME AppStoreAssumption ==
    /\ DOMAIN ConnName = Options
    /\ MaxHistory \in Nat \ {0} /\ MaxRecents \in Nat \ {0}
    /\ MaxEdits \in Nat /\ MaxStarts \in Nat
    /\ Unset \notin BOOLEAN

VARIABLES sessions,  \* AppData._sessions
          history,   \* AppData._history, the list HistoryModel shows
          favs,      \* the favourites in the dock
          command,   \* AppData._command
          ui,        \* AppData._ui_config
          bar, tool, \* the status bar and the tool bar are visible
          loaded,    \* AppData._data, as far as it is not the lists above
          recents,   \* recentlySession in setting.ini
          disk,      \* setting.json: its kind and what a start reads from it
          file,      \* the file of the last export
          phase,     \* "running", "saving" or "down"
          leaving,   \* the process ends when the save that runs is done
          edits, starts,
          settled,   \* the favourites at the last start, save, import or close
          expected   \* what the user may expect to find at the next start

vars == <<sessions, history, favs, command, ui, bar, tool, loaded, recents, disk,
          file, phase, leaving, edits, starts, settled, expected>>
lists == <<sessions, history, favs, command, settled>>
view == <<ui, bar, tool>>
stored == <<disk, expected, phase, leaving, starts>>

Default(v, d) == IF v = Unset THEN d ELSE v

(* What the user sees.                                                     *)
Visible == [session |-> sessions, history |-> history, favorite |-> favs, tool |-> tool]
Defaults == [session |-> << >>, history |-> << >>, favorite |-> {}, tool |-> TRUE]

Init ==
    /\ sessions = << >> /\ history = << >> /\ favs = {} /\ command = {}
    /\ ui = NoUi /\ bar = TRUE /\ tool = TRUE
    /\ loaded = None
    /\ recents = << >>
    /\ disk = Lost("none")
    /\ file = None
    /\ phase = "running" /\ leaving = FALSE
    /\ edits = 0 /\ starts = 0
    /\ settled = {} /\ expected = Defaults

-----------------------------------------------------------------------------
(* A list without the members of S, by list.remove or del.                 *)
Without(s, S) ==
    LET kept[n \in 0..Len(s)] ==
          IF n = 0 THEN << >>
          ELSE IF s[n] \in S THEN kept[n - 1] ELSE Append(kept[n - 1], s[n])
    IN  kept[Len(s)]

(* HistoryModel.addHistory: a repeated command moves to the front; only a  *)
(* history that is over the limit is cut, and by two.                      *)
AddedNoDedupe(h, c) ==   \* mutant
    <<c>> \o (IF Len(h) > MaxHistory THEN SubSeq(h, 1, MaxHistory - 1) ELSE h)
Added(h, c) ==
    LET others == Without(h, {c})
    IN  <<c>> \o (IF Len(others) > MaxHistory THEN SubSeq(others, 1, MaxHistory - 1)
                                              ELSE others)

(* AppData.addSession, a dict that equals a stored one is not added.       *)
WithSession(s, o) == IF o \in ToSet(s) THEN s ELSE Append(s, o)

(* RecentlySession.updateRecently: the name decides, and the entry on top  *)
(* stays as it is, be its options old.                                     *)
RecentName(cfg) == ConnName[cfg]
Updated(r, cfg) ==
    LET n == RecentName(cfg)
        others == Without(r, {e \in ToSet(r) : e.name = n})
        all == <<[name |-> n, data |-> cfg]>> \o others
    IN  IF r # << >> /\ Head(r).name = n THEN r
        ELSE IF Len(all) > MaxRecents THEN SubSeq(all, 1, MaxRecents) ELSE all

Up == phase = "running"
Edit == Up /\ edits < MaxEdits /\ edits' = edits + 1

(* xmlHistoryAdd for each request that is sent.                            *)
SendCommand(c) ==
    /\ Edit /\ history' = Added(history, c)
    /\ UNCHANGED <<sessions, favs, command, settled, view, loaded, recents, file, stored>>

(* batchRemoveRows: list.remove of what the rows hold.                     *)
WithoutRows(h, rows) == Without(h, {h[r] : r \in rows})

(* Delete, of the rows that are selected, and Delete All.                  *)
DeleteCommands(rows) ==
    /\ Edit /\ rows # {}
    /\ history' = WithoutRows(history, rows)
    /\ UNCHANGED <<sessions, favs, command, settled, view, loaded, recents, file, stored>>

(* openDeviceQuick with "Save session".                                    *)
SaveSession(o) ==
    /\ Edit /\ sessions' = WithSession(sessions, o)
    /\ recents' = Updated(recents, o)
    /\ UNCHANGED <<history, favs, command, settled, view, loaded, file, stored>>

(* _createSession; "Clear" in the menu of recent sessions.                 *)
OpenSession(o) ==
    /\ Edit /\ recents' = Updated(recents, o)
    /\ UNCHANGED <<lists, view, loaded, file, stored>>
ClearRecents ==
    /\ Edit /\ recents' = << >>
    /\ UNCHANGED <<lists, view, loaded, file, stored>>

(* The dock and the editor change the model, not AppData._command.         *)
EditFavorites(f) ==
    /\ Edit /\ favs' = f
    /\ UNCHANGED <<sessions, history, command, settled, view, loaded, recents, file, stored>>

(* _onActionShowStatusBarToggled: the setter writes another key than the   *)
(* getter reads.  _onActionShowToolBarToggled.                             *)
ShowStatusBar ==
    /\ Edit /\ bar' = ~bar /\ ui' = [ui EXCEPT !["satatus_bar"] = ~bar]
    /\ UNCHANGED <<lists, tool, loaded, recents, file, stored>>
ShowToolBar ==
    /\ Edit /\ tool' = ~tool /\ ui' = [ui EXCEPT !["tool_bar"] = ~tool]
    /\ UNCHANGED <<lists, bar, loaded, recents, file, stored>>

(* _onExportAppData: the lists of _data are the live ones, its favourites  *)
(* are those of the start; with no file at the start there is no list.     *)
Exported(types) ==
    [types |-> types, session |-> sessions, history |-> history,
     favorite |-> loaded, ui |-> ui]
Export(types) ==
    /\ Edit /\ loaded # None /\ types # {}
    /\ file' = Exported(types)
    /\ UNCHANGED <<lists, view, loaded, recents, stored>>

(* addSessions and addHistorys: one after the other.                       *)
WithSessions(s, list) ==
    LET taken[n \in 0..Len(list)] ==
          IF n = 0 THEN s ELSE WithSession(taken[n - 1], list[n])
    IN  taken[Len(list)]
AddedAll(h, list) ==
    LET taken[n \in 0..Len(list)] ==
          IF n = 0 THEN h ELSE Added(taken[n - 1], list[n])
    IN  taken[Len(list)]

(* _onImportAppData: the types that are in the file and still selected.    *)
MergedUi == [k \in Keys |-> IF k = "satatus_bar" THEN ui[k]
                            ELSE Default(file.ui[k], ui[k])]
Import(types) ==
    /\ Edit /\ file # None /\ types \subseteq file.types
    /\ sessions' = IF "session" \in types
                   THEN WithSessions(sessions, file.session) ELSE sessions
    /\ history' = IF "history" \in types
                  THEN AddedAll(history, file.history) ELSE history
    /\ IF "favorite" \in types
       THEN favs' = favs \cup file.favorite /\ command' = favs' /\ settled' = favs'
       ELSE UNCHANGED <<favs, command, settled>>
    /\ IF "ui-config" \in types
       THEN /\ ui' = MergedUi
            /\ bar' = Default(ui'["status_bar"], TRUE)
            /\ tool' = Default(ui'["tool_bar"], TRUE)
       ELSE UNCHANGED view
    /\ UNCHANGED <<loaded, recents, file, stored>>

-----------------------------------------------------------------------------
(* AppData.save begins: open() for writing empties the file.               *)
BeginSave ==
    /\ phase' = "saving" /\ disk' = Lost("torn") /\ expected' = Defaults
    /\ UNCHANGED <<sessions, history, favs, view, loaded, recents, file, edits, starts>>

(* _onSaveAppData.                                                         *)
Save ==
    /\ Up /\ command' = favs /\ settled' = favs /\ leaving' = FALSE /\ BeginSave

(* closeEvent, confirmed if a session is connected, then the end of main.  *)
CloseStale ==   \* mutant
    /\ Up /\ command' = command /\ settled' = favs /\ leaving' = TRUE /\ BeginSave
Close ==
    /\ Up /\ command' = favs /\ settled' = favs /\ leaving' = TRUE /\ BeginSave

(* handle_exception: whatever handler fails, AppData is saved as it is.    *)
Fail ==
    /\ Up /\ leaving' = TRUE /\ UNCHANGED <<command, settled>> /\ BeginSave

(* The text is complete: it holds what is displayed, but the favourites as *)
(* they were last handed over.                                             *)
Written == [session |-> sessions, history |-> history, favorite |-> command, ui |-> ui]
EndSave ==
    /\ phase = "saving"
    /\ disk' = [kind |-> "whole", data |-> Written]
    /\ phase' = IF leaving THEN "down" ELSE "running"
    /\ expected' = [Visible EXCEPT !.favorite = settled]
    /\ UNCHANGED <<lists, view, loaded, recents, file, leaving, edits, starts>>

(* The process is killed.                                                  *)
Kill ==
    /\ phase # "down" /\ phase' = "down"
    /\ UNCHANGED <<lists, view, loaded, recents, disk, file, leaving, edits, starts, expected>>

(* AppData.__init__ and the widgets of MainWindow.                         *)
Start ==
    LET data == disk.data
    IN  /\ phase = "down" /\ starts < MaxStarts
        /\ starts' = starts + 1 /\ edits' = 0
        /\ phase' = "running" /\ leaving' = FALSE
        /\ sessions' = data.session /\ history' = data.history
        /\ favs' = data.favorite /\ command' = data.favorite /\ settled' = data.favorite
        /\ loaded' = IF disk.kind = "whole" THEN data.favorite ELSE None
        /\ ui' = data.ui
        /\ bar' = Default(data.ui["status_bar"], TRUE)
        /\ tool' = Default(data.ui["tool_bar"], TRUE)
        /\ UNCHANGED <<recents, disk, file, expected>>

Next ==
    \/ \E c \in Cmds : SendCommand(c)
    \/ \E rows \in SUBSET (1..Len(history)) : DeleteCommands(rows)
    \/ \E o \in Options : SaveSession(o) \/ OpenSession(o)
    \/ ClearRecents
    \/ \E f \in SUBSET Favs : EditFavorites(f)
    \/ ShowStatusBar \/ ShowToolBar
    \/ \E types \in SUBSET Types : Export(types)
    \/ \E types \in SUBSET Types : Import(types)
    \/ Save \/ Close \/ Fail \/ EndSave \/ Kill \/ Start

Spec == Init /\ [][Next]_vars

-----------------------------------------------------------------------------
TypeOK ==
    /\ sessions \in Seq(Options) /\ history \in Seq(Cmds)
    /\ favs \subseteq Favs /\ command \subseteq Favs /\ settled \subseteq Favs
    /\ ui \in UiTypes
    /\ bar \in BOOLEAN /\ tool \in BOOLEAN
    /\ loaded = None \/ loaded \subseteq Favs
    /\ recents \in Seq([name : Range(ConnName), data : Options])
    /\ disk.kind \in Kinds /\ disk.data \in Content
    /\ file = None \/ (file.types \subseteq Types /\ file.session \in Seq(Options)
                       /\ file.history \in Seq(Cmds) /\ file.favorite \subseteq Favs)
    /\ phase \in {"running", "saving", "down"} /\ leaving \in BOOLEAN
    /\ edits \in 0..MaxEdits /\ starts \in 0..MaxStarts

(* The history and the list of recent connections stay within their limits *)
(* (the history may pass its own by one) and free of repetitions, over     *)
(* imports and restarts: removing an entry by its value removes just that  *)
(* one, and a menu of recent connections names none twice.  And the state  *)
(* is well typed.                                                          *)
ListsBounded ==
    /\ TypeOK
    /\ Len(history) <= MaxHistory + 1 /\ IsInjective(history)
    /\ Len(recents) <= MaxRecents
    /\ \A i, j \in 1..Len(recents) : recents[i].name = recents[j].name => i = j
    /\ IsInjective(sessions)

(* A start restores what was displayed at the last complete save, however  *)
(* the process ended since: after a normal exit everything; after a fatal  *)
(* exception everything but the favourites edited since the last save;     *)
(* after a kill the last save, or the defaults if it came during a save.   *)
StartRestores ==
    [][phase = "down" /\ phase' = "running" => Visible' = expected]_vars

(* Why: what may be expected is what a start reads from the file as it is; *)
(* the tool bar is as its switch says, and the favourites handed over are  *)
(* those of the last start, save, import or close.                         *)
Restored(data) ==
    [session |-> data.session, history |-> data.history, favorite |-> data.favorite,
     tool |-> Default(data.ui["tool_bar"], TRUE)]
FileTellsExpected ==
    /\ expected = Restored(disk.data)
    /\ command = settled
    /\ tool = Default(ui["tool_bar"], TRUE)
    /\ ui \in UiTypes /\ disk.data.ui \in UiTypes
    /\ file # None => file.ui \in UiTypes
=============================================================================
