----------------------------- MODULE MCRegistry -----------------------------
(***************************************************************************)
(* Names for Registry and their three conversions.                         *)
(*                                                                         *)
(* An atom is read in Latin-1, a binary is UTF-8 and read as it is.  The   *)
(* engine's bytes become the atom of as many characters: the two bytes of  *)
(* an e with an accent in a binary, C3 A9, become an atom of two.          *)
(***************************************************************************)
EXTENDS Registry, TLC

SomeNames   == {"atom a", "binary a", "atom e'", "atom wide"}
BinaryNames == {"binary a", "binary e'"}

SomeAtoms == {"a", "e'", "A~(c)", "wide"}
PlainBytes == {"61", "E9"}
SomeBytes  == {"61", "C3A9"}

KeyAtoms == [n \in SomeNames \cup BinaryNames |->
               CASE n \in {"atom a", "binary a"}   -> "a"
                 [] n \in {"atom e'", "binary e'"} -> "e'"
                 [] n = "atom wide"                -> "wide"]
Read == [n \in SomeNames \cup BinaryNames |->
               CASE n \in {"atom a", "binary a"} -> "61"
                 [] n = "atom e'"                -> "E9"
                 [] n = "binary e'"              -> "C3A9"
                 [] n = "atom wide"              -> "no bytes"]
Latin1 == [b \in {"61", "E9", "C3A9"} |->
               CASE b = "61" -> "a" [] b = "E9" -> "e'" [] b = "C3A9" -> "A~(c)"]

SomeKeys   == [n \in SomeNames |-> KeyAtoms[n]]
SomeReads  == [n \in SomeNames |-> Read[n]]
PlainLatin1 == [b \in PlainBytes |-> Latin1[b]]
BinaryKeys  == [n \in BinaryNames |-> KeyAtoms[n]]
BinaryReads == [n \in BinaryNames |-> Read[n]]
BinaryLatin1 == [b \in SomeBytes |-> Latin1[b]]

Symmetry == Permutations(Procs)

OwnHash  == "c1" :> 1 @@ "c2" :> 2
SameHash == "c1" :> 1 @@ "c2" :> 1
=============================================================================
