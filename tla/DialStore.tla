----------------------------- MODULE DialStore ------------------------------
(***************************************************************************)
(* The DIAL data of one application: dial_data.c at the level of its file, *)
(* with handle_dial_data, which replaces the list in memory and saves it,  *)
(* and DIAL_register_app, which reads it back.  The lock of the server     *)
(* makes these exclude each other; a crash of the process can fall between *)
(* any two steps, and any write of a save may fail without anyone looking. *)
(*                                                                         *)
(* The file is text, one line "key value" for each pair, and it is read    *)
(* back with "%255s %255s": as words, wherever the lines end.  So a field  *)
(* is the sequence of the words that fscanf will find in it: one in an     *)
(* ordinary field, none in an empty one, several in one that contains a    *)
(* space or is longer than 255 characters.  The file is a sequence of      *)
(* words.                                                                  *)
(***************************************************************************)
EXTENDS Integers, SequencesExt

CONSTANTS
    Words,      \* words that clients send
    Posts,      \* lists of pairs that parse_params may return
    MaxPosts,   \* bound: requests that save data
    MaxRestarts \* bound: crashes and removals of the application

\* What an array of retrieve_dial_data holds before anything was read into it,
\* what is left of a word that was not written whole, and what follows a field
\* in the memory when it has no terminator.
Garbage == "(garbage)"
Piece == "(piece)"
Rest == "(rest)"
Found == Words \cup {Garbage, Piece, Rest}

Pairs(words) == [key : Seq(words), value : Seq(words)]

ASSUME StoreAssumption ==
    /\ Words \cap {Garbage, Piece, Rest} = {}
    /\ Posts \subseteq Seq(Pairs(Words))
    /\ MaxPosts \in Nat
    /\ MaxRestarts \in Nat

VARIABLES
    pc,       \* "up", "open" and "write" inside store_dial_data, or "down"
    data,     \* app->dial_data, fields as sequences of words
    disk,     \* contents of the file
    text,     \* what the save under way has printed and not lost
    flushed,  \* words of it that stdio has written
    acked,    \* the list of the last request that was answered with 200
    torn,     \* a save was begun and did not end
    saving,   \* the list of that save
    lost,     \* a write of the last save failed
    posts, restarts

history == <<acked, torn, saving, lost>>
vars == <<pc, data, disk, text, flushed, history, posts, restarts>>

Init ==
    /\ pc = "down"
    /\ data = <<>>
    /\ disk = <<>>
    /\ text = <<>>
    /\ flushed = 0
    /\ acked = <<>>
    /\ torn = FALSE
    /\ saving = <<>>
    /\ lost = FALSE
    /\ posts = 0
    /\ restarts = 0

-----------------------------------------------------------------------------
\* The text that store_dial_data prints for a list.
Printed(list) == FlattenSeq([i \in 1 .. Len(list) |-> list[i].key \o list[i].value])

\* Mutant: pairs are appended to the list in the order of the file.
ReadForward(words) ==
    [i \in 1 .. (Len(words) + 1) \div 2 |->
        [key |-> <<words[2 * i - 1]>>,
         value |-> <<IF 2 * i <= Len(words) THEN words[2 * i] ELSE Garbage>>]]

\* The words that retrieve_dial_data finds in the file, as the list it builds of
\* them, the last pair first.  At the end of the file fscanf may find a key only;
\* then the value is the one of the pair before.
Read(words) ==
    LET n == (Len(words) + 1) \div 2
    IN  [i \in 1 .. n |->
            LET k == 2 * (n + 1 - i)
            IN  [key |-> <<words[k - 1]>>,
                 value |-> <<IF k <= Len(words) THEN words[k]
                             ELSE IF k > 2 THEN words[k - 2] ELSE Garbage>>]]

\* The copies of a list that it makes: a field is allocated for the characters
\* of its word and gets no terminator, so to its readers it may run on into what
\* the memory holds behind it.
Ends == {<<>>, <<Rest>>}
Copies(list) ==
    {[i \in 1 .. Len(list) |-> [key   |-> list[i].key \o ends[i].key,
                               value |-> list[i].value \o ends[i].value]] :
        ends \in [1 .. Len(list) -> [key : Ends, value : Ends]]}

-----------------------------------------------------------------------------
\* handle_dial_data up to the save: the old list is freed, the new one is kept.
Post(list) ==
    /\ pc = "up"
    /\ posts < MaxPosts
    /\ posts' = posts + 1
    /\ data' = list
    /\ pc' = "open"
    /\ UNCHANGED <<disk, text, flushed, history, restarts>>

\* Mutant: the file is not truncated.
OpenKeepsFile ==
    /\ pc = "open"
    /\ pc' = "write"
    /\ text' = Printed(data)
    /\ flushed' = 0
    /\ torn' = TRUE
    /\ saving' = data
    /\ lost' = FALSE
    /\ UNCHANGED <<data, disk, acked, posts, restarts>>

\* store_dial_data: fopen truncates the file; what is then printed gets to it
\* when stdio writes, or with fclose.
Open ==
    /\ pc = "open"
    /\ pc' = "write"
    /\ disk' = <<>>
    /\ text' = Printed(data)
    /\ flushed' = 0
    /\ torn' = TRUE
    /\ saving' = data
    /\ lost' = FALSE
    /\ UNCHANGED <<data, acked, posts, restarts>>

\* The file cannot be opened: exit(1).
OpenFails ==
    /\ pc = "open"
    /\ pc' = "down"
    /\ data' = <<>>
    /\ UNCHANGED <<disk, text, flushed, history, posts, restarts>>

\* The file after words were written at its start.
Overwritten(words) == words \o SubSeq(disk, Len(words) + 1, Len(disk))

\* stdio writes some of what was printed, perhaps up to the middle of a word.
Flush(n) ==
    /\ pc = "write"
    /\ n \in flushed + 1 .. Len(text)
    /\ \E cut \in {<<>>, <<Piece>>} :
          disk' = Overwritten(SubSeq(text, 1, n - Len(cut)) \o cut)
    /\ flushed' = n
    /\ UNCHANGED <<pc, data, text, history, posts, restarts>>

\* A write fails, of a buffer or in fclose, and words n + 1 to m of the text are
\* lost with it; a word that was begun stays so, or meets a later one.  What is on
\* the disk is not undone.  Nobody looks at the results of fprintf and fclose.
WriteFails(n, m) ==
    /\ pc = "write"
    /\ n < m
    /\ \E joint \in {<<>>, <<Piece>>} :
          /\ n + Len(joint) >= flushed
          /\ n < flushed => disk[flushed] = Piece
          /\ text' = SubSeq(text, 1, n) \o joint \o SubSeq(text, m + 1, Len(text))
    /\ lost' = TRUE
    /\ UNCHANGED <<pc, data, disk, flushed, acked, torn, saving, posts, restarts>>

\* fclose writes the rest, the request is answered with 200.
CloseFile ==
    /\ pc = "write"
    /\ disk' = Overwritten(text)
    /\ acked' = data
    /\ torn' = FALSE
    /\ pc' = "up"
    /\ UNCHANGED <<data, text, flushed, saving, lost, posts, restarts>>

\* DIAL_register_app: the list is what the file holds, or empty if the file
\* cannot be opened.
Register ==
    /\ pc = "down"
    /\ data' \in Copies(Read(disk)) \cup {<<>>}
    /\ pc' = "up"
    /\ UNCHANGED <<disk, text, flushed, history, posts, restarts>>

\* The process ends, wherever it is, or the application is unregistered.
Crash ==
    /\ pc # "down"
    /\ restarts < MaxRestarts
    /\ restarts' = restarts + 1
    /\ pc' = "down"
    /\ data' = <<>>
    /\ UNCHANGED <<disk, text, flushed, history, posts>>

Save ==
    \/ \E list \in Posts : Post(list)
    \/ Open
    \/ OpenFails
    \/ \E n \in 1 .. Len(text) : Flush(n)
    \/ \E n \in 0 .. Len(text), m \in 1 .. Len(text) : WriteFails(n, m)
    \/ CloseFile

Next == Save \/ Register \/ Crash

Spec == Init /\ [][Next]_vars

-----------------------------------------------------------------------------
(***************************************************************************)
(* Properties.                                                             *)
(***************************************************************************)
\* Lists that the format can hold.
SingleWords(list) == \A i \in 1 .. Len(list) : Len(list[i].key) = 1 /\ Len(list[i].value) = 1

\* Every variable has its type; a save that is under way has written as much of
\* the file as there is, and no more than it has to write.
TypeOK ==
    /\ pc \in {"up", "open", "write", "down"}
    /\ data \in Seq(Pairs(Found))
    /\ disk \in Seq(Found)
    /\ text \in Seq(Found)
    /\ flushed \in Nat
    /\ pc = "write" => Len(disk) = flushed /\ flushed <= Len(text)
    /\ acked \in Seq(Pairs(Words))
    /\ saving \in Seq(Pairs(Words))
    /\ torn \in BOOLEAN
    /\ lost \in BOOLEAN
    /\ posts \in 0 .. MaxPosts
    /\ restarts \in 0 .. MaxRestarts

\* Unless a save was cut short or one of its writes failed, retrieve_dial_data
\* finds the list that was acknowledged last, turned round, as
\* test_write_dial_data expects; a save whose fopen failed changes nothing.
DiskHoldsAcked == SingleWords(acked) => Read(disk) = Reverse(acked)

\* So what the server shows to clients are the acknowledged pairs, in the order
\* of the request or, after a restart, in the opposite one and in fields that may
\* run on; or nothing, if the file could not be opened.
MemoryMatchesAcked ==
    pc = "up" /\ SingleWords(acked) => data \in {acked, <<>>} \cup Copies(Reverse(acked))

\* Both together, for the file and for the memory.
AckedSurvives == ~torn /\ ~lost => DiskHoldsAcked /\ MemoryMatchesAcked

\* A crash in a save none of whose writes failed loses pairs but damages at most
\* one: of what is found in the file only the first pair, the last one written,
\* may be one that nobody sent; the others in memory are copies of pairs sent.
DamageIsOnePair ==
    torn /\ ~lost /\ SingleWords(saving) =>
        /\ Read(disk) # <<>> =>
              \E n \in 0 .. Len(saving) : Tail(Read(disk)) = Reverse(SubSeq(saving, 1, n))
        /\ pc = "up" /\ data # <<>> =>
              \E n \in 0 .. Len(saving) : Tail(data) \in Copies(Reverse(SubSeq(saving, 1, n)))
=============================================================================
