------------------------------ MODULE LineFile ------------------------------
(***************************************************************************)
(* The text files the command line keeps between runs (--seen-store,       *)
(* --nullifier-store), as their readers parse them: a file is a sequence   *)
(* of lines, a line a sequence of words, and a word the sequence of the    *)
(* pieces that were written one after the other with nothing in between.   *)
(* The last line is the one no newline has ended yet.  Writers open the    *)
(* file in append mode and `writeln!` hands it one piece per write call,   *)
(* so a writer that stops half way leaves a last line that the next        *)
(* writer continues.                                                       *)
(***************************************************************************)
EXTENDS Naturals, Sequences

Space   == "space"
Newline == "newline"

\* A missing file reads like an empty one.
EmptyFile == << << <<>> >> >>

AppendPiece(file, piece) ==
  LET last == Len(file)
      line == file[last]
      word == line[Len(line)]
  IN CASE piece = Newline -> Append(file, << <<>> >>)
       [] piece = Space   -> [file EXCEPT ![last] = Append(line, <<>>)]
       [] OTHER           -> [file EXCEPT ![last] =
                                [line EXCEPT ![Len(line)] = Append(word, piece)]]

\* split_whitespace skips empty words: `id` and `hash` are the first two words
\* of the line.
IsEntry(line, id, hash) ==
  /\ id # <<>> /\ hash # <<>>
  /\ \E i, j \in DOMAIN line :
       /\ i < j
       /\ line[i] = id
       /\ line[j] = hash
       /\ \A k \in 1 .. j - 1 : k # i => line[k] = <<>>

\* A trimmed line that is the word and nothing else.
IsLone(line, word) ==
  \E i \in DOMAIN line : line[i] = word /\ \A k \in DOMAIN line : k # i => line[k] = <<>>

\* The line, id and hash of each line with two words.
Entries(file) ==
  {e \in UNION {{n} \X {file[n][i] : i \in DOMAIN file[n]} \X {file[n][i] : i \in DOMAIN file[n]} :
                n \in DOMAIN file} :
     IsEntry(file[e[1]], e[2], e[3])}

\* SeenStore::load: every line with two words is an entry, a later line wins.
Loaded(file) ==
  LET entries == Entries(file)
      last(id) == CHOOSE e \in entries :
                    e[2] = id /\ \A f \in entries : f[2] = id => f[1] <= e[1]
  IN [id \in {e[2] : e \in entries} |-> last(id)[3]]
=============================================================================
