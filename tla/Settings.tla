------------------------------- MODULE Settings -------------------------------
(***************************************************************************)
(* The settings kept in $HOME/config.txt (app_state.cpp).  The UI thread    *)
(* stores a setting and saves at once, by rewriting the whole file; but the *)
(* field of view it only stores, and raises gFovDirty for the render thread *)
(* to save.  Neither takes a lock.  fopen truncates, the text is formatted  *)
(* setting by setting into a buffer and written by fclose: what is in       *)
(* between is what the other thread, or the death of the process, can come  *)
(* across.                                                                 *)
(***************************************************************************)
EXTENDS Naturals, Sequences

CONSTANTS UiSettings,          \* how many settings are saved at once
          Values,              \* values of a setting; 0 is the default
          MaxSets, MaxDeaths   \* bounds

ASSUME SettingsAssumption == UiSettings \in Nat /\ {0, 1} \subseteq Values

Fov      == UiSettings + 1
Settings == 1..Fov
Threads  == {"ui", "render"}

VARIABLES
  live,     \* the atomics
  file,     \* config.txt: "missing", "empty" (truncated), "positional" (before
            \* version 2) or "tagged", and the settings in it
  legacy,   \* the files of the separate settings, before config.txt
  fovDirty, \* gFovDirty
  at,       \* what each thread does here, and the next setting of its loop
  text,     \* what each thread has formatted or read
  sets, deaths,  \* what is left of the bounds
  crowded,       \* threads that have met the other one in this code (history)
  disturbed      \* they have met since the last save by one alone (history)

settingsVars == <<live, file, legacy, fovDirty, at, text, sets, deaths, crowded, disturbed>>

Defaults == [i \in Settings |-> 0]
Idle     == [do |-> "idle", i |-> 1]
NotYet   == [do |-> "notStarted", i |-> 1]
Busy(t)  == at[t].do \notin {"idle", "notStarted", "raise"}
NoFiles  == [i \in {} |-> 0]

SettingsInit ==
  /\ live = Defaults
  /\ file \in [kind: {"missing", "positional", "tagged"}, vals: {[i \in Settings |-> 1]}]
  /\ legacy \in {NoFiles, [i \in Settings |-> 1]}
  /\ fovDirty = FALSE
  /\ at = [ui |-> [do |-> "load", i |-> 1], render |-> NotYet]
  /\ text = [t \in Threads |-> Defaults]
  /\ sets = MaxSets /\ deaths = MaxDeaths
  /\ crowded = {} /\ disturbed = FALSE

(* Thread t comes across the other one by doing d.                          *)
Meets(t, d) == d # "idle" /\ \E u \in Threads \ {t} : Busy(u)

(* Thread t goes on to do d with setting i. *)
Does(t, d, i) ==
  /\ at' = [at EXCEPT ![t] = [do |-> d, i |-> i]]
  /\ crowded' = IF Meets(t, d) THEN Threads
                ELSE IF d = "idle" THEN crowded \ {t} ELSE crowded
  /\ disturbed' = IF at[t].do = "format" /\ d = "idle" /\ t \notin crowded THEN FALSE
                  ELSE disturbed \/ Meets(t, d)

-----------------------------------------------------------------------------
(* saveAllConfig                                                            *)

OpenSave(t) ==
  /\ at[t].do = "save"
  /\ file' = [file EXCEPT !.kind = "empty"]
  /\ Does(t, "format", 1)
  /\ UNCHANGED <<live, legacy, fovDirty, text, sets, deaths>>

Format(t) ==
  /\ at[t].do = "format" /\ at[t].i \in Settings
  /\ text' = [text EXCEPT ![t][at[t].i] = live[at[t].i]]
  /\ Does(t, "format", at[t].i + 1)
  /\ UNCHANGED <<live, file, legacy, fovDirty, sets, deaths>>

CloseSave(t) ==
  /\ at[t].do = "format" /\ at[t].i \notin Settings
  /\ file' = [kind |-> "tagged", vals |-> text[t]]
  /\ Does(t, "idle", 1)
  /\ UNCHANGED <<live, legacy, fovDirty, text, sets, deaths>>

(* A setting is stored, then everything is saved. *)
Set(i, v) ==
  /\ at["ui"].do = "idle" /\ sets > 0 /\ i # Fov /\ v # live[i]
  /\ live' = [live EXCEPT ![i] = v]
  /\ Does("ui", "save", 1)
  /\ sets' = sets - 1
  /\ UNCHANGED <<file, legacy, fovDirty, text, deaths>>

-----------------------------------------------------------------------------
(* The field of view                                                        *)

(* nativeSetFov stores it and then raises the flag. *)
StoreFov(v) ==
  /\ at["ui"].do = "idle" /\ sets > 0 /\ v # live[Fov]
  /\ live' = [live EXCEPT ![Fov] = v]
  /\ at' = [at EXCEPT !["ui"].do = "raise"]
  /\ sets' = sets - 1
  /\ UNCHANGED <<file, legacy, fovDirty, text, deaths, crowded, disturbed>>

RaiseFovDirty ==
  /\ at["ui"].do = "raise"
  /\ at' = [at EXCEPT !["ui"].do = "idle"]
  /\ fovDirty' = TRUE
  /\ UNCHANGED <<live, file, legacy, text, sets, deaths, crowded, disturbed>>

(* Variant: the flag is cleared too late, once the text is formatted. *)
TakeFovDirtyLate ==
  \/ /\ at["render"].do = "idle" /\ fovDirty
     /\ Does("render", "save", 1)
     /\ UNCHANGED <<live, file, legacy, fovDirty, text, sets, deaths>>
  \/ /\ at["render"].do = "format" /\ at["render"].i \notin Settings
     /\ fovDirty /\ fovDirty' = FALSE
     /\ UNCHANGED <<live, file, legacy, at, text, sets, deaths, crowded, disturbed>>

(* The render thread takes the flag down before it saves. *)
TakeFovDirty ==
  /\ at["render"].do = "idle" /\ fovDirty
  /\ fovDirty' = FALSE
  /\ Does("render", "save", 1)
  /\ UNCHANGED <<live, file, legacy, text, sets, deaths>>

-----------------------------------------------------------------------------
(* loadAllConfig, by nativeStart and again by the render thread             *)

(* The file is read at once.  Without one the legacy files are read and     *)
(* removed, which loses them if the process dies before the save.           *)
ReadFile(t) ==
  /\ at[t].do = "load"
  /\ CASE file.kind \in {"tagged", "positional"} ->
            text' = [text EXCEPT ![t] = file.vals] /\ Does(t, file.kind, 1) /\ UNCHANGED legacy
       [] file.kind = "missing" /\ legacy # NoFiles ->
            text' = [text EXCEPT ![t] = legacy] /\ Does(t, "positional", 1) /\ legacy' = NoFiles
       [] OTHER -> Does(t, "idle", 1) /\ UNCHANGED <<text, legacy>>
  /\ UNCHANGED <<live, file, fovDirty, sets, deaths>>

(* Its settings are stored one after the other; an old format is saved in   *)
(* the new one.                                                             *)
Apply(t) ==
  /\ at[t].do \in {"tagged", "positional"} /\ at[t].i \in Settings
  /\ live' = [live EXCEPT ![at[t].i] = text[t][at[t].i]]
  /\ Does(t, at[t].do, at[t].i + 1)
  /\ UNCHANGED <<file, legacy, fovDirty, text, sets, deaths>>

(* Variant: an old format stays as it is. *)
LoadedUnsaved(t) ==
  /\ at[t].do \in {"tagged", "positional"} /\ at[t].i \notin Settings
  /\ Does(t, "idle", 1)
  /\ UNCHANGED <<live, file, legacy, fovDirty, text, sets, deaths>>

Loaded(t) ==
  /\ at[t].do \in {"tagged", "positional"} /\ at[t].i \notin Settings
  /\ Does(t, IF at[t].do = "positional" THEN "save" ELSE "idle", 1)
  /\ UNCHANGED <<live, file, legacy, fovDirty, text, sets, deaths>>

(* nativeStart has returned to the UI thread: the render thread runs, until *)
(* nativeStop has joined it.  The flag outlives it.                         *)
StartRender ==
  /\ at["ui"].do = "idle" /\ at["render"] = NotYet
  /\ Does("render", "load", 1)
  /\ UNCHANGED <<live, file, legacy, fovDirty, text, sets, deaths>>

StopRender ==
  /\ at["ui"].do = "idle" /\ at["render"].do = "idle"
  /\ at' = [at EXCEPT !["render"] = NotYet]
  /\ UNCHANGED <<live, file, legacy, fovDirty, text, sets, deaths, crowded, disturbed>>

(* The process dies and is started again. *)
Die ==
  /\ deaths > 0 /\ deaths' = deaths - 1
  /\ live' = Defaults /\ fovDirty' = FALSE /\ text' = [t \in Threads |-> Defaults]
  /\ at' = [ui |-> [do |-> "load", i |-> 1], render |-> NotYet]
  /\ crowded' = {} /\ disturbed' = FALSE
  /\ UNCHANGED <<file, legacy, sets>>

SettingsNext ==
  \/ \E t \in Threads :
       OpenSave(t) \/ Format(t) \/ CloseSave(t) \/ ReadFile(t) \/ Apply(t) \/ Loaded(t)
  \/ \E i \in Settings, v \in Values : Set(i, v)
  \/ \E v \in Values : StoreFov(v)
  \/ RaiseFovDirty \/ TakeFovDirty \/ StartRender \/ StopRender \/ Die

SettingsSpec == SettingsInit /\ [][SettingsNext]_settingsVars

-----------------------------------------------------------------------------
SettingsTypeOK ==
  /\ at \in [Threads -> [do: {"notStarted", "idle", "raise", "load", "tagged", "positional",
                              "save", "format"},
                         i: 1..Fov + 1]]
  /\ live \in [Settings -> Values] /\ legacy \in {NoFiles} \union [Settings -> Values]
  /\ file \in [kind: {"missing", "empty", "positional", "tagged"}, vals: [Settings -> Values]]
  /\ text \in [Threads -> [Settings -> Values]]
  /\ fovDirty \in BOOLEAN /\ disturbed \in BOOLEAN /\ crowded \in SUBSET Threads

(* A field of view that was stored is still to be saved. *)
FovPending == fovDirty \/ at["ui"].do = "raise"

(* The settings before i are those of vals, but for one still to be saved. *)
AgreeBelow(i, vals) ==
  \A j \in Settings : j < i => live[j] = vals[j] \/ (j = Fov /\ FovPending)

(* What the file says is what is in memory; one that is missing or empty    *)
(* says the defaults.                                                       *)
FileAgrees ==
  /\ file.kind \in {"missing", "empty"} => AgreeBelow(Fov + 1, Defaults)
  /\ file.kind = "tagged" => AgreeBelow(Fov + 1, file.vals)

(* Once nobody is loading or saving, a restart would load what is in        *)
(* memory, through an upgrade of the format, the second load of the render  *)
(* thread and a death of the process at any step; but for a field of view   *)
(* whose flag the render thread has yet to see, and until the next save or  *)
(* restart if both threads were here at once.                               *)
FileFollows ==
  (\A t \in Threads : ~Busy(t)) /\ ~disturbed => FileAgrees /\ file.kind # "positional"
=============================================================================
