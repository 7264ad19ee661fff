---------------------------- MODULE ModuleTerms ----------------------------
(***************************************************************************)
(* The ids of modules as terms between slashes: names, which do not begin  *)
(* with a period, "." and "..".  An id is a sequence of bytes.             *)
(***************************************************************************)
EXTENDS Naturals, Sequences

Dot   == "."
Slash == "/"

(* A requested id that begins with a period, inside a module.              *)
IsRelative(m, r) == m # <<>> /\ r # <<>> /\ r[1] = Dot

(* A name begins s, and is n bytes long.                                   *)
NameBegins(s, n) ==
    /\ n \in 1..Len(s)
    /\ s[1] # Dot
    /\ \A i \in 1..n : s[i] # Slash

(* The term t begins s, and a slash follows it.                            *)
TermBegins(s, t) ==
    /\ Len(t) < Len(s)
    /\ \A i \in DOMAIN t : s[i] = t[i]
    /\ s[Len(t) + 1] = Slash

(* s without the slashes it begins with.                                   *)
Unslashed(s) ==
    LET n == CHOOSE n \in 0..Len(s) : /\ \A i \in 1..n : s[i] = Slash
                                      /\ n < Len(s) => s[n + 1] # Slash
    IN SubSeq(s, n + 1, Len(s))

(* s without the term of n bytes that begins it, and the slashes behind.   *)
Behind(s, n) == Unslashed(SubSeq(s, n + 1, Len(s)))

(* The directory of s: up to its last slash, and with it.                  *)
Dir(s) ==
    LET n == CHOOSE n \in 0..Len(s) : /\ n > 0 => s[n] = Slash
                                      /\ \A i \in (n + 1)..Len(s) : s[i] # Slash
    IN SubSeq(s, 1, n)

Parent(dir) == Dir(SubSeq(dir, 1, Len(dir) - 1))

(* Every term of s is a name, but there may be one to come.                *)
NamesOnly(s) ==
    \A i \in DOMAIN s : i = 1 \/ s[i - 1] = Slash => s[i] \notin {Dot, Slash}

IsDir(s) == NamesOnly(s) /\ (s # <<>> => s[Len(s)] = Slash)

(* An absolute id: names with a slash between them.                        *)
Canonical(s) == NamesOnly(s) /\ s # <<>> /\ s[Len(s)] # Slash
=============================================================================
