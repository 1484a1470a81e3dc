---------------------------- MODULE ConfigWatcher ----------------------------
(***************************************************************************)
(* From an edit of the configuration file to the gateway that serves it:   *)
(* fsnotify's events, the watcher goroutine of LoadAndWatch with its       *)
(* debounce timer, the channel updates (capacity 1) and the goroutine of   *)
(* main that applies what it receives. Process adds the life of main.      *)
(*                                                                         *)
(* A configuration is the number of the save that wrote it. A save is one  *)
(* step: it takes less time than the debounce interval, so that the file   *)
(* is not loaded half written. How Reload applies a configuration, and     *)
(* why it refuses one, is modelled in Gateway.                             *)
(***************************************************************************)
EXTENDS Integers, Sequences

CONSTANTS
    MaxSaves,  \* bound on the number of saves
    Refused    \* saves that are valid to validate but that Reload refuses

ASSUME ConfigWatcherAssumption ==
    /\ MaxSaves \in Nat
    /\ Refused \subseteq 1..MaxSaves

VARIABLES
    saves,     \* number of saves so far
    disk,      \* what the file holds: a configuration, or Broken
    watched,   \* whether fsnotify still watches the file at the path
    events,    \* write events that the watcher has not received yet
    debounce,  \* whether the debounce timer is armed
    updates,   \* the channel
    done,      \* Close has been called
    returned,  \* the watcher goroutine has returned
    reloading, \* what main is applying, or None
    applied,   \* the configuration in force
    dropped    \* history: the last one loaded found an older one in the channel

watcherVars == <<saves, disk, watched, events, debounce, updates, done, returned,
                 reloading, applied, dropped>>

\* Does not parse, or is rejected by validate.
Broken == -1
None == -2

\* make(chan *Config, 1)
Capacity == 1

WatcherTypeOK ==
    /\ saves \in 0..MaxSaves
    /\ disk \in 0..MaxSaves \cup {Broken}
    /\ events \in 0..MaxSaves
    /\ updates \in Seq(0..MaxSaves) /\ Len(updates) <= Capacity
    /\ reloading \in 0..MaxSaves \cup {None}
    /\ applied \in 0..MaxSaves
    /\ {watched, debounce, done, returned, dropped} \subseteq BOOLEAN

\* LoadAndWatch has returned the initial configuration and main serves it.
WatcherInit ==
    /\ saves = 0
    /\ disk = 0
    /\ watched = TRUE
    /\ events = 0
    /\ debounce = FALSE
    /\ updates = <<>>
    /\ done = FALSE
    /\ returned = FALSE
    /\ reloading = None
    /\ applied = 0
    /\ dropped = FALSE

-----------------------------------------------------------------------------
\* The operator and the file system

\* The file is written in place.
Save ==
    /\ saves < MaxSaves
    /\ saves' = saves + 1
    /\ disk' \in {saves + 1, Broken}
    /\ events' = IF watched /\ ~done THEN events + 1 ELSE events
    /\ UNCHANGED <<watched, debounce, updates, done, returned, reloading, applied, dropped>>

\* An editor renames a new file over the old one. The event is a Remove of the
\* watched file, which the watcher ignores, and fsnotify drops the watch.
Replace ==
    /\ saves < MaxSaves
    /\ saves' = saves + 1
    /\ disk' = saves + 1
    /\ watched' = FALSE
    /\ UNCHANGED <<events, debounce, updates, done, returned, reloading, applied, dropped>>

-----------------------------------------------------------------------------
\* The goroutine of LoadAndWatch

\* Mutant of Notice: the filter lets only Create events pass.
NoticeCreateOnly ==
    /\ ~returned
    /\ events > 0
    /\ events' = events - 1
    /\ UNCHANGED <<saves, disk, watched, debounce, updates, done, returned, reloading,
                   applied, dropped>>

\* case event := <-fsw.Events, for a Write: the timer is started again.
Notice ==
    /\ ~returned
    /\ events > 0
    /\ events' = events - 1
    /\ debounce' = TRUE
    /\ UNCHANGED <<saves, disk, watched, updates, done, returned, reloading, applied, dropped>>

\* case <-debounce: load the file; if it is valid, offer it to the channel, and
\* drop it when the channel is full.
Fire ==
    /\ ~returned
    /\ debounce
    /\ debounce' = FALSE
    /\ dropped' = (disk # Broken /\ Len(updates) = Capacity /\ Head(updates) # disk)
    /\ updates' = IF disk # Broken /\ Len(updates) < Capacity
                  THEN Append(updates, disk) ELSE updates
    /\ UNCHANGED <<saves, disk, watched, events, done, returned, reloading, applied>>

\* case <-w.done, or fsw.Events is closed: select may also take what else is ready.
Return ==
    /\ done
    /\ ~returned
    /\ returned' = TRUE
    /\ UNCHANGED <<saves, disk, watched, events, debounce, updates, done, reloading,
                   applied, dropped>>

\* Close is called by main; fsnotify stops to watch.
CloseWatcher ==
    /\ ~done
    /\ done' = TRUE
    /\ UNCHANGED <<saves, disk, watched, events, debounce, updates, returned, reloading,
                   applied, dropped>>

-----------------------------------------------------------------------------
\* The goroutine of main

Receive ==
    /\ reloading = None
    /\ updates # <<>>
    /\ reloading' = Head(updates)
    /\ updates' = Tail(updates)
    /\ UNCHANGED <<saves, disk, watched, events, debounce, done, returned, applied, dropped>>

\* gw.Reload returns; if it fails, the old routes stay.
Apply ==
    /\ reloading # None
    /\ applied' = IF reloading \in Refused THEN applied ELSE reloading
    /\ reloading' = None
    /\ UNCHANGED <<saves, disk, watched, events, debounce, updates, done, returned, dropped>>

Watch == Save \/ Replace \/ Notice \/ Fire \/ Return \/ Receive \/ Apply
=============================================================================
