----------------------------- MODULE PagedFile -----------------------------
(***************************************************************************)
(* What the random access file layer promises: a set of files, each an     *)
(* array of pages with a length, whose reads return the last write, whose  *)
(* growth appends zero pages, and which loses at most the writes made since *)
(* the last sync when the process dies.  Neither segments, caches, dirty   *)
(* flags nor descriptor positions are visible here.                        *)
(***************************************************************************)
EXTENDS Naturals

CONSTANTS Files,    \* the files of the process
          MaxPages, \* no file grows past this many pages
          Values,   \* contents of a page
          Zero      \* the content of a page that was never written

Pages == 0 .. MaxPages - 1

VARIABLES
  opened,   \* opened[f]: the file is open
  size,     \* size[f]: its length in pages
  content,  \* content[f][p]: what a read of page p returns
  pending,  \* pending[f][p]: what page p may hold after the process dies
  buff      \* buff[p]: what the reads of the current call returned

vars == <<opened, size, content, pending, buff>>

Init ==
  /\ opened = [f \in Files |-> FALSE]
  /\ size = [f \in Files |-> 0]
  /\ content = [f \in Files |-> [p \in Pages |-> Zero]]
  /\ pending = [f \in Files |-> [p \in Pages |-> {Zero}]]
  /\ buff = [p \in Pages |-> Zero]

(* The file becomes usable; a file that did not exist gets a first length. *)
Open(f) ==
  /\ ~opened[f]
  /\ opened' = [opened EXCEPT ![f] = TRUE]
  /\ \E n \in 1 .. MaxPages : /\ size[f] # 0 => n = size[f]
                              /\ size' = [size EXCEPT ![f] = n]
  /\ UNCHANGED <<content, pending, buff>>

(* Growth changes the length only: the new pages are zero already.         *)
Grow(f) ==
  /\ opened[f]
  /\ \E n \in 1 .. MaxPages : /\ n > size[f]
                              /\ size' = [size EXCEPT ![f] = n]
  /\ UNCHANGED <<opened, content, pending, buff>>

Write(f, P, v) ==
  /\ opened[f]
  /\ P \subseteq {p \in Pages : p < size[f]}
  /\ content' = [content EXCEPT ![f] = [p \in Pages |-> IF p \in P THEN v ELSE @[p]]]
  /\ pending' = [pending EXCEPT ![f] = [p \in Pages |-> IF p \in P THEN @[p] \cup {v} ELSE @[p]]]
  /\ UNCHANGED <<opened, size, buff>>

(* A caller brings an empty buffer, and each read fills part of it.        *)
NewBuffer ==
  /\ buff' = [p \in Pages |-> Zero]
  /\ UNCHANGED <<opened, size, content, pending>>

Read(f, P) ==
  /\ opened[f]
  /\ P \subseteq {p \in Pages : p < size[f]}
  /\ buff' = [p \in Pages |-> IF p \in P THEN content[f][p] ELSE buff[p]]
  /\ UNCHANGED <<opened, size, content, pending>>

Sync(f) ==
  /\ opened[f]
  /\ pending' = [pending EXCEPT ![f] = [p \in Pages |-> {content[f][p]}]]
  /\ UNCHANGED <<opened, size, content, buff>>

Close(f) ==
  /\ opened[f]
  /\ opened' = [opened EXCEPT ![f] = FALSE]
  /\ pending' = [pending EXCEPT ![f] = [p \in Pages |-> {content[f][p]}]]
  /\ UNCHANGED <<size, content, buff>>

(* The process dies: every page of every file is left with a value that    *)
(* was written to it since its last sync, or with the synced one.          *)
Crash ==
  /\ opened' = [f \in Files |-> FALSE]
  /\ content' \in [Files -> [Pages -> Values]]
  /\ \A f \in Files, p \in Pages : content'[f][p] \in pending[f][p]
  /\ pending' = [f \in Files |-> [p \in Pages |-> {content'[f][p]}]]
  /\ UNCHANGED <<size, buff>>

Next ==
  \/ \E f \in Files :
       \/ Open(f)
       \/ Grow(f)
       \/ \E P \in SUBSET Pages, v \in Values : Write(f, P, v)
       \/ \E P \in SUBSET Pages : Read(f, P)
       \/ Sync(f)
       \/ Close(f)
  \/ NewBuffer
  \/ Crash

Spec == Init /\ [][Next]_vars

=============================================================================
