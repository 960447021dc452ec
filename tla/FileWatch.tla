------------------------------- MODULE FileWatch -------------------------------
(***************************************************************************)
(* The file_watch trigger: triggers/file-watch.ts.  A watcher is a listing *)
(* of the watched path that is compared with a new one at every poll.      *)
(*                                                                         *)
(* The module has the two variables of the component and what register,    *)
(* unregister and poll do to them; the supervisor's registry, which calls  *)
(* them, composes it (Registry.tla).  A listing maps every entry the path  *)
(* may have to its mtime, Gone when it has none: a missing path has no     *)
(* entries, and a file that is watched lists itself.                       *)
(***************************************************************************)
EXTENDS Naturals

CONSTANTS
    Service,    \* service names
    Definition, \* what a service file can say
    None,       \* null value
    Path, Entry, \* paths that may be watched, and the entries one may have
    TriggerOf,  \* of a definition: [path, events] of its file_watch trigger, or None (manual)
    MaxChanges  \* bound: changes made to the watched files

Kinds == {"add", "change", "unlink"}
Trigger == [path : Path, events : SUBSET Kinds]
Gone == 0
Mtimes == 0..MaxChanges
Listing == [Entry -> Mtimes]

ASSUME FileWatchAssumption ==
    /\ None \notin Definition /\ None \notin Trigger
    /\ TriggerOf \in [Definition -> Trigger \cup {None}]
    /\ MaxChanges \in Nat

VARIABLES
    listing,    \* what a scan of each path finds
    changes,    \* changes made so far: the clock of the mtimes
    tracked     \* of each service: its watcher, [trigger, prev], or None

watchVars == <<listing, changes, tracked>>

Watcher == [trigger : Trigger, prev : Listing]

FileWatchTypeOK ==
    /\ listing \in [Path -> Listing]
    /\ changes \in Mtimes
    /\ tracked \in [Service -> Watcher \cup {None}]

FileWatchInit ==
    /\ listing = [p \in Path |-> [e \in Entry |-> Gone]]
    /\ changes = 0
    /\ tracked = [s \in Service |-> None]

-----------------------------------------------------------------------------
\* diffListings()
Diff(prev, curr) ==
    {"add" : e \in {e \in Entry : prev[e] = Gone /\ curr[e] # Gone}}
    \cup {"change" : e \in {e \in Entry : Gone \notin {prev[e], curr[e]} /\ prev[e] # curr[e]}}
    \cup {"unlink" : e \in {e \in Entry : prev[e] # Gone /\ curr[e] = Gone}}

\* Mutant: a watcher is armed without a baseline.
ArmedBlind(s, trigger) ==
    IF tracked[s] # None /\ tracked[s].trigger = trigger
    THEN tracked[s]
    ELSE [trigger |-> trigger, prev |-> None]

\* register(): the baseline is what is there now, unless the trigger is the one already armed.
Armed(s, trigger) ==
    IF tracked[s] # None /\ tracked[s].trigger = trigger
    THEN tracked[s]
    ELSE [trigger |-> trigger, prev |-> listing[trigger.path]]

\* poll(): what was found becomes the baseline, whether or not it fires.
Due(s) ==
    /\ tracked[s] # None
    /\ tracked[s].prev # listing[tracked[s].trigger.path]

Polled(s) == [tracked EXCEPT ![s].prev = listing[tracked[s].trigger.path]]

Fires(s) ==
    tracked[s].trigger.events \cap Diff(tracked[s].prev, listing[tracked[s].trigger.path]) # {}

\* Somebody creates, writes or deletes a watched file.
Changes(p, e) ==
    /\ changes < MaxChanges
    /\ changes' = changes + 1
    /\ \E m \in {changes + 1, Gone} \ {listing[p][e]} :
          listing' = [listing EXCEPT ![p][e] = m]
    /\ UNCHANGED tracked
================================================================================
