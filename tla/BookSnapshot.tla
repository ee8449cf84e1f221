---------------------------- MODULE BookSnapshot ----------------------------
(***************************************************************************)
(* The snapshot file of the WebSocket books: a task of the run loop sends  *)
(* a worker thread to copy every book and to replace the file, while the   *)
(* feed's thread goes on changing the books; the process may die anywhere  *)
(* and loads the file when it starts again.                                *)
(*                                                                         *)
(* A book is the set of prices of one of its sides (the other is copied    *)
(* the same way); the size of a price is read with it.  The Python client  *)
(* holds on to the maps its tokens have when the save begins and copies    *)
(* them price by price, live or replaced since; the Rust client hands out  *)
(* a copy of each.                                                         *)
(***************************************************************************)
EXTENDS Integers, FiniteSets, Sequences

CONSTANTS
  Token, Price, NoBook,
  MaxAge,    \* book_snapshot_max_age_s
  MaxTime,   \* bound: the clock
  MaxWrites  \* bound: changes by the feed

VARIABLES
  client,   \* "python" or "rust"
  running,  \* the process
  book,     \* _states
  saver,    \* where the worker thread is
  todo,     \* tokens of the shallow copy of _states not copied yet
  old,      \* the maps it holds that are no longer their token's book
  token,    \* the one being copied
  source,   \* the map it is copied from
  attached, \* whether that map is still the token's book
  list,     \* its levels, as copied
  payload,  \* the books copied
  stamp,    \* saved_at
  temp,     \* the temporary file: none, begun, or whole
  file,     \* the snapshot file
  loaded,   \* what the last start seeded
  torn,     \* history: tokens whose map changed while it was copied
  had,      \* history: the books each token of todo has had since the save began
  was,      \* history: those of the token being copied, when its copy began
  clock, writes

saving == <<saver, todo, old, token, source, attached, list, payload, stamp, temp, torn, had, was>>
vars == <<client, running, book, saving, file, loaded, clock, writes>>

NoFile == [at |-> 0, books |-> <<>>, whole |-> FALSE]

Ascending(S) == CHOOSE s \in [1 .. Cardinality(S) -> S] :
                  \A i \in 1 .. Cardinality(S) - 1 : s[i] < s[i + 1]

\* The keys of the map that the constructor fills from a list of levels.
Listed(list_) == {list_[i] : i \in DOMAIN list_}

Unbegun ==
  /\ saver = "idle" /\ todo = {} /\ token = NoBook /\ source = {} /\ attached = FALSE
  /\ list = <<>> /\ payload = <<>> /\ stamp = 0 /\ temp = "none" /\ torn = {}
  /\ old = <<>> /\ had = [t \in Token |-> {}] /\ was = {}

Init ==
  /\ client \in {"python", "rust"} /\ running = FALSE
  /\ book = [t \in Token |-> NoBook]
  /\ Unbegun
  /\ file = NoFile /\ loaded = NoFile
  /\ clock = 1 /\ writes = 0

-----------------------------------------------------------------------------
(* The process.                                                            *)

Tick ==
  /\ clock < MaxTime /\ clock' = clock + 1
  /\ UNCHANGED <<client, running, book, saving, file, loaded, writes>>

\* load_snapshot and seed_books: all of the books, or none of them.
Load ==
  IF file # NoFile /\ file.whole /\ clock - file.at <= MaxAge THEN file ELSE NoFile

Start ==
  /\ ~running /\ running' = TRUE
  /\ loaded' = Load
  /\ book' = [t \in Token |->
       IF t \in DOMAIN Load.books THEN Listed(Load.books[t].levels) ELSE NoBook]
  /\ UNCHANGED <<client, saving, file, clock, writes>>

\* A crash leaves the temporary file where it is, and no one reads it.
Crash ==
  /\ running /\ running' = FALSE
  /\ book' = [t \in Token |-> NoBook]
  /\ loaded' = NoFile
  /\ saver' = "idle" /\ todo' = {} /\ token' = NoBook /\ source' = {} /\ attached' = FALSE
  /\ list' = <<>> /\ payload' = <<>> /\ stamp' = 0 /\ temp' = "none" /\ torn' = {}
  /\ old' = <<>> /\ had' = [t \in Token |-> {}] /\ was' = {}
  /\ UNCHANGED <<client, file, clock, writes>>

-----------------------------------------------------------------------------
(* The feed's thread.                                                      *)

\* The book of t is L now; a save that has not come to it may yet read it.
Becomes(t, L) ==
  /\ running /\ writes < MaxWrites /\ writes' = writes + 1
  /\ book' = [book EXCEPT ![t] = L]
  /\ had' = IF t \in todo THEN [had EXCEPT ![t] = @ \cup {L}] ELSE had
  /\ UNCHANGED <<client, was, running, saver, todo, token, list, payload, stamp, temp, file,
                 loaded, clock>>

\* A delta changes the map in place, under the copier's eyes.
Delta(t, L) ==
  /\ Becomes(t, L)
  /\ LET seen == saver = "copying" /\ t = token /\ attached IN
       /\ source' = IF seen THEN L ELSE source
       /\ torn' = IF seen THEN torn \cup {t} ELSE torn
  /\ UNCHANGED <<old, attached>>

Put(t, p) == book[t] # NoBook /\ p \notin book[t] /\ Delta(t, book[t] \cup {p})
TakeOut(t, p) == book[t] # NoBook /\ p \in book[t] /\ Delta(t, book[t] \ {p})

\* A book message or a seed brings a new map; the Python client's save goes on
\* from the one it holds.
NewBook(t, L) ==
  /\ Becomes(t, L)
  /\ attached' = (attached /\ t # token)
  /\ old' = IF client = "python" /\ t \in todo \ DOMAIN old
            THEN [u \in DOMAIN old \cup {t} |-> IF u = t THEN book[t] ELSE old[u]]
            ELSE old
  /\ UNCHANGED <<source, torn>>

-----------------------------------------------------------------------------
(* The worker thread: save_snapshot.                                       *)

\* _bg_save_book_snapshot calls it, one at a time.
Save ==
  /\ running /\ saver = "idle"
  /\ saver' = "choosing" /\ todo' = {t \in Token : book[t] # NoBook}
  /\ payload' = <<>> /\ torn' = {} /\ old' = <<>>
  /\ had' = [t \in Token |-> IF book[t] # NoBook THEN {book[t]} ELSE {}]
  /\ UNCHANGED <<client, was, running, book, token, source, attached, list, stamp, temp,
                 file, loaded, clock, writes>>

Choose(t) ==
  /\ saver = "choosing" /\ t \in todo /\ todo' = todo \ {t}
  /\ saver' = "copying" /\ token' = t
  /\ source' = IF t \in DOMAIN old THEN old[t] ELSE book[t]
  /\ attached' = (client = "python" /\ t \notin DOMAIN old)
  /\ list' = <<>> /\ was' = had[t] /\ had' = [had EXCEPT ![t] = {}]
  /\ UNCHANGED <<client, old, running, book, payload, stamp, temp, file, loaded, torn,
                 clock, writes>>

\* The next level is the one at the next position of the sorted keys.
CopyLevel ==
  /\ saver = "copying" /\ Len(list) < Cardinality(source)
  /\ list' = Append(list, Ascending(source)[Len(list) + 1])
  /\ UNCHANGED <<client, old, had, was, running, book, saver, todo, token, source, attached,
                 payload, stamp, temp, file, loaded, torn, clock, writes>>

Copied(p) ==
  /\ saver' = "choosing" /\ payload' = p
  /\ token' = NoBook /\ source' = {} /\ attached' = FALSE /\ list' = <<>> /\ was' = {}
  /\ UNCHANGED <<client, old, had, running, book, todo, stamp, temp, file, loaded, torn,
                 clock, writes>>

BookCopied ==
  /\ saver = "copying" /\ Len(list) >= Cardinality(source)
  /\ LET copy == [levels |-> list, torn |-> token \in torn, was |-> was] IN
     Copied([t \in DOMAIN payload \cup {token} |-> IF t = token THEN copy ELSE payload[t]])

\* A price that is gone before its size is read costs the token its place.
LevelGone == saver = "copying" /\ token \in torn /\ Copied(payload)

\* Mutant: the snapshot file itself is opened for writing.
BeginInPlace ==
  /\ saver = "choosing" /\ todo = {} /\ saver' = "writing"
  /\ stamp' = clock /\ temp' = "begun"
  /\ file' = [at |-> clock, books |-> <<>>, whole |-> FALSE]
  /\ UNCHANGED <<client, old, had, was, running, book, todo, token, source, attached, list,
                 payload, loaded, torn, clock, writes>>

\* The payload is stamped and mkstemp makes the temporary file.
Begin ==
  /\ saver = "choosing" /\ todo = {} /\ saver' = "writing"
  /\ stamp' = clock /\ temp' = "begun"
  /\ UNCHANGED <<client, old, had, was, running, book, todo, token, source, attached, list,
                 payload, file, loaded, torn, clock, writes>>

Dump ==
  /\ saver = "writing" /\ temp = "begun" /\ temp' = "whole"
  /\ UNCHANGED <<client, old, had, was, running, book, saver, todo, token, source, attached,
                 list, payload, stamp, file, loaded, torn, clock, writes>>

\* os.replace
Replace ==
  /\ saver = "writing" /\ temp = "whole"
  /\ file' = [at |-> stamp, books |-> payload, whole |-> TRUE]
  /\ saver' = "idle" /\ temp' = "none" /\ payload' = <<>> /\ stamp' = 0
  /\ UNCHANGED <<client, old, had, was, running, book, todo, token, source, attached, list,
                 loaded, torn, clock, writes>>

\* An error of the disk: the temporary file is unlinked.
WriteFails ==
  /\ saver = "writing" /\ temp # "none"
  /\ saver' = "idle" /\ temp' = "none" /\ payload' = <<>> /\ stamp' = 0
  /\ UNCHANGED <<client, old, had, was, running, book, todo, token, source, attached, list,
                 file, loaded, torn, clock, writes>>

-----------------------------------------------------------------------------
Process == Tick \/ Start \/ Crash
Feed(t) ==
  \/ \E p \in Price : Put(t, p) \/ TakeOut(t, p)
  \/ \E L \in SUBSET Price : NewBook(t, L)
Worker ==
  \/ Save \/ CopyLevel \/ BookCopied \/ LevelGone \/ Begin \/ Dump \/ Replace \/ WriteFails
  \/ \E t \in Token : Choose(t)

Next == Process \/ Worker \/ \E t \in Token : Feed(t)

Spec == Init /\ [][Next]_vars

-----------------------------------------------------------------------------
(* Properties.                                                             *)

(***************************************************************************)
(* Whenever the process dies, the file it finds again is a whole one, and  *)
(* every book in it is one its token had at a moment of the save that      *)
(* wrote it, before it was copied: not always the last, since the Python   *)
(* client copies the map it held on to.  Not so when the feed's thread     *)
(* changed that map during the copy; the Rust client never lets it ("a     *)
(* concurrent reader never sees a partial file").                          *)
(***************************************************************************)
SnapshotTrue ==
  file = NoFile \/
    /\ file.whole
    /\ \A t \in DOMAIN file.books :
         \/ \E b \in file.books[t].was : file.books[t].levels = Ascending(b)
         \/ client = "python" /\ file.books[t].torn
=============================================================================
