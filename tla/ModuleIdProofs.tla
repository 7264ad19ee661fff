--------------------------- MODULE ModuleIdProofs ---------------------------
(***************************************************************************)
(* Theorems about ModuleId, for every alphabet, size of the buffer and set *)
(* of requested ids: resolution in place never reads what it wrote, reads  *)
(* or writes outside the buffer, or fails an assertion; and what it makes  *)
(* of the buffer is a walk over directories (ModulePath).                  *)
(***************************************************************************)
EXTENDS ModuleId, SequenceTheorems, WellFoundedInduction, TLAPS

Given == Input(mod, req)

(* What is read and written lies in the buffer, the output behind the      *)
(* input; a name that is copied lags one byte.                             *)
InBuffer ==
    Running => /\ Len(Given) < Limit
               /\ p <= Len(Given)
               /\ q <= p
               /\ at = "name" => q < p

(* The output has neither the NUL nor what lies behind it.                 *)
OutputIsBytes == Running => \A i \in 0..(q - 1) : buf[i] \in Char

(* Between terms the output ends in a slash, and c is a byte of the name.  *)
TermEnds ==
    /\ at = "name" => c \in Char
    /\ at \in {"term", "slashes"} => q = 0 \/ buf[q - 1] = Slash
    /\ at \in {"name", "done"} => qLast <= q

IInv == TypeOK /\ InBuffer /\ UnreadIntact /\ OutputIsBytes /\ TermEnds

-----------------------------------------------------------------------------
(* The id that is resolved is a string of bytes.                           *)
LEMMA InputType ==
  ASSUME NEW m \in Seq(Char), NEW r \in Seq(Char)
  PROVE  Input(m, r) \in Seq(Char)
<1>1. <<Slash, Dot, Dot, Slash>> \in Seq(Char)
  BY DEF Char
<1>2. m \o <<Slash, Dot, Dot, Slash>> \o r \in Seq(Char)
  BY <1>1
<1> QED BY <1>2 DEF Input

(* An input that fits leaves bytes, its NUL and unwritten memory.          *)
LEMMA FilledType ==
  ASSUME NEW s \in Seq(Char)
  PROVE  /\ Filled(s) \in [0..(Limit - 1) -> Byte]
         /\ Len(s) \in Nat
         /\ Fits(s) => /\ Filled(s)[Len(s)] = Nul
                       /\ \A i \in 0..(Len(s) - 1) : Filled(s)[i] \in Char
<1>1. Len(s) \in Nat /\ \A i \in 1..Len(s) : s[i] \in Char
  BY LenProperties, ElementOfSeq
<1>2. \A i \in 0..(Len(s) - 1) : i + 1 \in 1..Len(s)
  BY <1>1
<1>3. Limit \in Nat \ {0}
  BY ModuleIdAssumption
<1>4. ASSUME NEW i \in 0..(Limit - 1)
      PROVE  (IF i < Len(s) THEN s[i + 1] ELSE
              IF i = Len(s) THEN Nul ELSE Junk) \in Byte
  BY <1>1, <1>2, <1>3, <1>4 DEF Byte
<1>5. Filled(s) \in [0..(Limit - 1) -> Byte]
  BY <1>4 DEF Filled
<1>6. ASSUME Fits(s)
      PROVE  /\ Filled(s)[Len(s)] = Nul
             /\ \A i \in 0..(Len(s) - 1) : Filled(s)[i] \in Char
  BY <1>1, <1>2, <1>3, <1>6 DEF Filled, Fits
<1> QED BY <1>1, <1>5, <1>6

(* What is read next is a byte of the input or the NUL that ends it, and   *)
(* only the NUL has nothing behind it.                                     *)
LEMMA NextByte ==
  ASSUME IInv, Running
  PROVE  /\ Len(Given) \in Nat
         /\ p \in 0..Len(Given)
         /\ \A i \in p..Len(Given) : buf[i] # Nul => i < Len(Given)
         /\ \A i \in p..Len(Given) : buf[i] # Nul => buf[i] \in Char
         /\ \A i \in p..Len(Given) : buf[i] = Filled(Given)[i]
<1>1. Given \in Seq(Char)
  BY InputType DEF IInv, TypeOK, Given
<1>2. Len(Given) \in Nat /\ Fits(Given)
  BY <1>1, FilledType DEF IInv, InBuffer, Fits
<1>3. p \in 0..Len(Given)
  BY <1>2, ModuleIdAssumption DEF IInv, TypeOK, InBuffer
<1>4. \A i \in p..Len(Given) : buf[i] = Filled(Given)[i]
  BY DEF IInv, UnreadIntact, Given
<1>5. /\ Filled(Given)[Len(Given)] = Nul
      /\ \A i \in 0..(Len(Given) - 1) : Filled(Given)[i] \in Char
  BY <1>1, <1>2, FilledType
<1>6. \A i \in p..Len(Given) : i = Len(Given) \/ i \in 0..(Len(Given) - 1)
  BY <1>2, <1>3
<1> QED BY <1>2, <1>3, <1>4, <1>5, <1>6

(* The bytes before an index are among those before a later one.          *)
LEMMA ShorterPart ==
  ASSUME NEW m \in Nat, NEW n \in Nat, m <= n
  PROVE  0..(m - 1) \subseteq 0..(n - 1)
  OBVIOUS

(* A part of the buffer is a string of bytes when its bytes are.           *)
LEMMA BytesType ==
  ASSUME NEW b, NEW from \in Nat, NEW to \in Nat, from <= to,
         \A i \in 0..(to - 1) : b[i] \in Char
  PROVE  Bytes(b, from, to) \in Seq(Char)
<1>1. \A i \in 1..(to - from) : from + i - 1 \in 0..(to - 1)
  OBVIOUS
<1>2. Bytes(b, from, to) \in [1..(to - from) -> Char]
  BY <1>1 DEF Bytes
<1>3. to - from \in Nat
  OBVIOUS
<1> QED BY <1>2, <1>3, SeqDef

-----------------------------------------------------------------------------
(* The buffer before the first call has no input, and none is being read.  *)
LEMMA InitIInv == Init => IInv
<1> SUFFICES ASSUME Init PROVE IInv
  OBVIOUS
<1>1. TypeOK
  BY ModuleIdAssumption, EmptySeq DEF Init, TypeOK, Byte
<1>2. at = "idle"
  BY DEF Init
<1> QED BY <1>1, <1>2 DEF IInv, InBuffer, UnreadIntact, OutputIsBytes,
                          TermEnds, Running

(* A call fills the buffer, or is refused because its id does not fit.     *)
LEMMA RequireIInv == IInv /\ Require => IInv'
<1> SUFFICES ASSUME IInv, Require PROVE IInv'
  OBVIOUS
<1> DEFINE s == Input(mod', req')
<1>1. req' \in Seq(Char) /\ mod' \in Seq(Char)
  BY ModuleIdAssumption, EmptySeq DEF Require, IInv, TypeOK
<1>2. s \in Seq(Char) /\ Given' = s
  BY <1>1, InputType DEF Given
<1>3. Len(s) \in Nat /\ Filled(s) \in [0..(Limit - 1) -> Byte]
  BY <1>2, FilledType
<1>4. p' = 0 /\ q' = 0 /\ qLast' = 0
  BY DEF Require
<1>5. \/ Fits(s) /\ buf' = Filled(s) /\ at' = "term"
      \/ at' = "error" /\ buf' = buf
  BY DEF Require
<1>6. TypeOK'
  BY <1>1, <1>3, <1>4, <1>5, ModuleIdAssumption
     DEF Require, IInv, TypeOK, outVars
<1>7. Running' => Fits(s) /\ buf' = Filled(s) /\ at' = "term"
  BY <1>5 DEF Running
<1> HIDE DEF s
<1>8. InBuffer'
  BY <1>2, <1>3, <1>4, <1>7 DEF InBuffer, Fits
<1>9. UnreadIntact'
  BY <1>2, <1>3, <1>4, <1>7 DEF UnreadIntact, Given
<1>10. OutputIsBytes'
  BY <1>4 DEF OutputIsBytes
<1>11. TermEnds'
  BY <1>4, <1>5 DEF TermEnds
<1> QED BY <1>6, <1>8, <1>9, <1>10, <1>11 DEF IInv

(* A step that reads from a buffer it leaves alone keeps the unread rest.  *)
LEMMA ReadKeeps ==
  ASSUME IInv, Running, UNCHANGED <<req, mod, buf>>,
         p' \in Nat, p' >= p, p' <= Len(Given)
  PROVE  UnreadIntact'
<1>1. Given' = Given
  BY DEF Given
<1>2. \A i \in p'..Len(Given) : i \in p..Len(Given)
  BY NextByte
<1>3. \A i \in p..Len(Given) : buf'[i] = Filled(Given)[i]
  BY NextByte
<1> QED BY <1>1, <1>2, <1>3 DEF UnreadIntact, Given
-----------------------------------------------------------------------------
(* "." is read with its slash, and nothing behind the input.               *)
LEMMA EatDotIInv == IInv /\ EatDot => IInv'
<1> SUFFICES ASSUME IInv, EatDot PROVE IInv'
  OBVIOUS
<1>1. Running /\ at = "term"
  BY DEF EatDot, AtTerm, Running
<1>2. buf[p] # Nul /\ buf[p + 1] # Nul
  BY DEF EatDot, Nul, Dot, Slash
<1>3. p + 2 \in Nat /\ p + 2 <= Len(Given)
  BY <1>1, <1>2, NextByte
<1> USE DEF EatDot, AtTerm, argVars, outVars
<1>4. Given' = Given /\ p' = p + 2 /\ at' = "slashes" /\ UNCHANGED <<q, buf>>
  BY DEF Given
<1>5. TypeOK'
  BY <1>1, <1>3, NextByte, ModuleIdAssumption DEF IInv, TypeOK, InBuffer
<1>6. InBuffer'
  BY <1>1, <1>3, <1>4, NextByte DEF IInv, TypeOK, InBuffer
<1>7. UnreadIntact'
  <2>1. p' \in Nat /\ p' >= p /\ p' <= Len(Given)
    BY <1>1, <1>3, <1>4, NextByte
  <2> QED BY <1>1, <2>1, ReadKeeps
<1>8. OutputIsBytes'
  BY <1>1, <1>4 DEF IInv, OutputIsBytes
<1>9. TermEnds'
  BY <1>1, <1>4 DEF IInv, TermEnds
<1> QED BY <1>5, <1>6, <1>7, <1>8, <1>9 DEF IInv

(* ".." is read with its slash; the output loses its last byte.            *)
LEMMA DotDotIInv == IInv /\ DotDot => IInv'
<1> SUFFICES ASSUME IInv, DotDot PROVE IInv'
  OBVIOUS
<1>1. Running /\ at = "term"
  BY DEF DotDot, AtTerm, Running
<1>2. buf[p] # Nul /\ buf[p + 1] # Nul /\ buf[p + 2] # Nul
  BY DEF DotDot, IsDotDot, Nul, Dot, Slash
<1>3. p + 3 \in Nat /\ p + 3 <= Len(Given)
  BY <1>1, <1>2, NextByte
<1> USE DEF DotDot, AtTerm, argVars, outVars
<1>4. Given' = Given /\ p' = p + 3 /\ q' = q - 1 /\ at' = "back" /\ buf' = buf
  BY DEF Given
<1>5. q \in Nat /\ q - 1 \in Nat
  BY DEF IInv, TypeOK
<1>6. TypeOK'
  BY <1>1, <1>3, <1>5, NextByte, ModuleIdAssumption DEF IInv, TypeOK, InBuffer
<1>7. InBuffer'
  BY <1>1, <1>3, <1>4, <1>5, NextByte DEF IInv, TypeOK, InBuffer
<1>8. UnreadIntact'
  <2>1. p' \in Nat /\ p' >= p /\ p' <= Len(Given)
    BY <1>1, <1>3, <1>4, NextByte
  <2> QED BY <1>1, <2>1, ReadKeeps
<1>9. OutputIsBytes'
  BY <1>1, <1>4, <1>5 DEF IInv, OutputIsBytes
<1>10. TermEnds'
  BY <1>4 DEF TermEnds
<1> QED BY <1>6, <1>7, <1>8, <1>9, <1>10 DEF IInv

(* A name begins with a byte of the input, which the output then lags.     *)
LEMMA BeginNameIInv == IInv /\ BeginName => IInv'
<1> SUFFICES ASSUME IInv, BeginName PROVE IInv'
  OBVIOUS
<1>1. Running /\ at = "term"
  BY DEF BeginName, AtTerm, Running
<1>2. p + 1 \in Nat /\ p + 1 <= Len(Given) /\ buf[p] \in Char
  BY <1>1, NextByte DEF BeginName
<1> USE DEF BeginName, AtTerm, argVars, outVars
<1>3. /\ Given' = Given /\ p' = p + 1 /\ at' = "name" /\ c' = buf[p]
      /\ qLast' = q /\ UNCHANGED <<q, buf>>
  BY DEF Given
<1>4. TypeOK'
  BY <1>1, <1>2, NextByte, ModuleIdAssumption DEF IInv, TypeOK, InBuffer, Byte
<1>5. InBuffer'
  BY <1>1, <1>2, <1>3, NextByte DEF IInv, TypeOK, InBuffer
<1>6. UnreadIntact'
  <2>1. p' \in Nat /\ p' >= p /\ p' <= Len(Given)
    BY <1>1, <1>2, <1>3, NextByte
  <2> QED BY <1>1, <2>1, ReadKeeps
<1>7. OutputIsBytes'
  BY <1>1, <1>3 DEF IInv, OutputIsBytes
<1>8. TermEnds'
  BY <1>2, <1>3 DEF IInv, TypeOK, TermEnds
<1> QED BY <1>4, <1>5, <1>6, <1>7, <1>8 DEF IInv

(* A resolution that is refused reads no more.                             *)
LEMMA RejectIInv == IInv /\ Reject => IInv'
  BY DEF IInv, Reject, AtTerm, argVars, outVars, TypeOK, InBuffer,
         UnreadIntact, OutputIsBytes, TermEnds, Running

(* Taking a name back, q stops at the start or behind a slash.             *)
LEMMA BackwardIInv == IInv /\ Backward => IInv'
<1> SUFFICES ASSUME IInv, Backward PROVE IInv'
  OBVIOUS
<1>1. Running /\ at = "back"
  BY DEF Backward, Running
<1>2. Given' = Given /\ UNCHANGED <<p, buf>>
  BY DEF Backward, argVars, Given
<1>3. \/ q' = q - 1 /\ q # 0 /\ at' = "back"
      \/ q' = q /\ (q = 0 \/ buf[q - 1] = Slash) /\ at' = "slashes"
  BY DEF Backward
<1>4. q \in Nat /\ q' \in Nat /\ q' <= q
  BY <1>3 DEF IInv, TypeOK
<1>5. TypeOK'
  BY <1>3, <1>4, ModuleIdAssumption
     DEF Backward, argVars, outVars, IInv, TypeOK
<1>6. InBuffer'
  BY <1>1, <1>2, <1>3, <1>4, NextByte DEF IInv, InBuffer
<1>7. UnreadIntact'
  <2>1. p' \in Nat /\ p' >= p /\ p' <= Len(Given)
    BY <1>1, <1>2, NextByte
  <2> QED BY <1>1, <2>1, ReadKeeps DEF Backward, argVars
<1>8. OutputIsBytes'
  <2>1. 0..(q' - 1) \subseteq 0..(q - 1)
    BY <1>4, ShorterPart
  <2> QED BY <1>1, <1>2, <2>1 DEF IInv, OutputIsBytes
<1>9. TermEnds'
  BY <1>2, <1>3 DEF TermEnds
<1> QED BY <1>5, <1>6, <1>7, <1>8, <1>9 DEF IInv

(* A slash that is skipped is a byte of the input.                         *)
LEMMA EatSlashIInv == IInv /\ EatSlash => IInv'
<1> SUFFICES ASSUME IInv, EatSlash PROVE IInv'
  OBVIOUS
<1>1. Running /\ at = "slashes"
  BY DEF EatSlash, Running
<1> USE DEF EatSlash, argVars, outVars
<1>2. Given' = Given /\ UNCHANGED <<q, buf>> /\ at' \in {"slashes", "term"}
  BY DEF Given
<1>3. buf[p] = Slash => p + 1 \in Nat /\ p + 1 <= Len(Given)
  BY <1>1, NextByte DEF Slash, Nul
<1>4. p' \in Nat /\ p' >= p /\ p' <= Len(Given)
  BY <1>1, <1>3, NextByte
<1>5. TypeOK'
  BY <1>1, <1>2, <1>4, NextByte, ModuleIdAssumption DEF IInv, TypeOK, InBuffer
<1>6. InBuffer'
  BY <1>1, <1>2, <1>4, NextByte DEF IInv, TypeOK, InBuffer
<1>7. UnreadIntact'
  BY <1>1, <1>4, ReadKeeps
<1>8. OutputIsBytes'
  BY <1>1, <1>2 DEF IInv, OutputIsBytes
<1>9. TermEnds'
  BY <1>1, <1>2 DEF IInv, TermEnds
<1> QED BY <1>5, <1>6, <1>7, <1>8, <1>9 DEF IInv

-----------------------------------------------------------------------------
(* Writing the byte in hand grows the output by a byte and leaves the      *)
(* input as it was, because the output lags.                               *)
LEMMA WrittenType ==
  ASSUME IInv, at = "name"
  PROVE  /\ Running /\ c \in Char
         /\ q \in Nat /\ q < p /\ p < Limit
         /\ Written \in [0..(Limit - 1) -> Byte]
         /\ \A i \in p..Len(Given) : Written[i] = buf[i]
         /\ \A i \in 0..q : Written[i] \in Char
<1>1. Running
  BY DEF Running
<1>2. q \in Nat /\ q < p /\ p < Limit /\ Limit \in Nat
  BY <1>1, NextByte, ModuleIdAssumption DEF IInv, TypeOK, InBuffer
<1>3. c \in Char
  BY DEF IInv, TermEnds
<1>4. q \in 0..(Limit - 1) /\ p \in Nat
  BY <1>1, <1>2, NextByte
<1>5. /\ Written[q] = c
      /\ \A i \in 0..(Limit - 1) : i # q => Written[i] = buf[i]
      /\ Written \in [0..(Limit - 1) -> Byte]
  BY <1>3, <1>4 DEF Written, IInv, TypeOK, Byte
<1>6. \A i \in p..Len(Given) : i # q /\ i \in 0..(Limit - 1)
  BY <1>1, <1>2, <1>4, NextByte DEF IInv, InBuffer
<1>7. \A i \in p..Len(Given) : Written[i] = buf[i]
  BY <1>5, <1>6
<1>8. \A i \in 0..q : i = q \/ i \in 0..(q - 1)
  BY <1>2
<1>9. \A i \in 0..(q - 1) : i # q /\ i \in 0..(Limit - 1) /\ buf[i] \in Char
  BY <1>1, <1>2, <1>4 DEF IInv, OutputIsBytes
<1>10. \A i \in 0..q : Written[i] \in Char
  BY <1>3, <1>5, <1>8, <1>9
<1> QED BY <1>1, <1>2, <1>3, <1>5, <1>7, <1>10

(* A letter of a name moves from the input to the output.                  *)
LEMMA CopyLetterIInv == IInv /\ CopyLetter => IInv'
<1> SUFFICES ASSUME IInv, CopyLetter PROVE IInv'
  OBVIOUS
<1>1. Running /\ at = "name"
  BY DEF CopyLetter, Running
<1>2. Written[p] = buf[p]
  BY <1>1, NextByte, WrittenType
<1>3. p + 1 \in Nat /\ p + 1 <= Len(Given) /\ Written[p] \in Char
  BY <1>1, <1>2, NextByte DEF CopyLetter
<1>4. /\ Given' = Given /\ p' = p + 1 /\ q' = q + 1 /\ at' = "name"
      /\ c' = Written[p] /\ qLast' = qLast /\ buf' = Written
  BY <1>1 DEF CopyLetter, argVars, Given
<1>5. q \in Nat /\ q < p /\ p < Limit
  BY <1>1, WrittenType
<1>6. TypeOK'
  <2>1. p' \in 0..Limit /\ q' \in 0..Limit
    BY <1>1, <1>3, <1>4, <1>5, NextByte, ModuleIdAssumption DEF IInv, InBuffer
  <2> QED BY <1>1, <1>3, <1>4, <2>1, WrittenType
          DEF CopyLetter, argVars, outVars, IInv, TypeOK, Byte
<1>7. InBuffer'
  BY <1>1, <1>3, <1>4, <1>5, NextByte DEF IInv, InBuffer
<1>8. UnreadIntact'
  <2>1. \A i \in p'..Len(Given) : i \in p..Len(Given)
    BY <1>1, <1>4, NextByte
  <2>2. \A i \in p..Len(Given) : buf'[i] = Filled(Given)[i]
    BY <1>1, <1>4, NextByte, WrittenType
  <2> QED BY <1>3, <1>4, <2>1, <2>2 DEF UnreadIntact, Given
<1>9. OutputIsBytes'
  BY <1>1, <1>4, <1>5, WrittenType DEF OutputIsBytes
<1>10. TermEnds'
  BY <1>1, <1>3, <1>4, <1>5 DEF IInv, TypeOK, TermEnds
<1> QED BY <1>6, <1>7, <1>8, <1>9, <1>10 DEF IInv

(* The name's last letter and its slash are written; the slash was read.   *)
LEMMA CopySlashIInv == IInv /\ CopySlash => IInv'
<1> SUFFICES ASSUME IInv, CopySlash PROVE IInv'
  OBVIOUS
<1>1. Running /\ at = "name"
  BY DEF CopySlash, Running
<1>2. Written[p] = buf[p] /\ Written[p] # Nul
  BY <1>1, NextByte, WrittenType DEF CopySlash, Slash, Nul
<1>3. p + 1 \in Nat /\ p + 1 <= Len(Given)
  BY <1>1, <1>2, NextByte
<1>4. /\ Given' = Given /\ p' = p + 1 /\ q' = q + 2 /\ at' = "slashes"
      /\ c' = Slash /\ qLast' = qLast
      /\ buf' = [Written EXCEPT ![q + 1] = Slash]
  BY DEF CopySlash, argVars, Given
<1>5. q \in Nat /\ q < p /\ p < Limit /\ p \in Nat
  BY <1>1, NextByte, WrittenType
<1>6. /\ buf'[q + 1] = Slash
      /\ \A i \in 0..(Limit - 1) : i # q + 1 => buf'[i] = Written[i]
      /\ buf' \in [0..(Limit - 1) -> Byte]
  <2>1. q + 1 \in 0..(Limit - 1) /\ Slash \in Byte
    BY <1>5, ModuleIdAssumption DEF Byte, Char
  <2> QED BY <1>1, <1>4, <2>1, WrittenType
<1>7. TypeOK'
  <2>1. p' \in 0..Limit /\ q' \in 0..Limit
    BY <1>1, <1>3, <1>4, <1>5, NextByte, ModuleIdAssumption DEF IInv, InBuffer
  <2> QED BY <1>4, <1>6, <2>1
          DEF CopySlash, argVars, outVars, IInv, TypeOK, Byte, Char
<1>8. InBuffer'
  BY <1>1, <1>3, <1>4, <1>5, NextByte DEF IInv, InBuffer
<1>9. UnreadIntact'
  <2>1. \A i \in p'..Len(Given) :
            i \in p..Len(Given) /\ i # q + 1 /\ i \in 0..(Limit - 1)
    BY <1>1, <1>4, <1>5, NextByte, ModuleIdAssumption DEF IInv, InBuffer
  <2>2. \A i \in p..Len(Given) : Written[i] = Filled(Given)[i]
    BY <1>1, NextByte, WrittenType
  <2> QED BY <1>3, <1>4, <1>6, <2>1, <2>2 DEF UnreadIntact, Given
<1>10. OutputIsBytes'
  <2>1. \A i \in 0..(q' - 1) : i = q + 1 \/ i \in 0..q
    BY <1>4, <1>5
  <2>2. \A i \in 0..q : i # q + 1 /\ i \in 0..(Limit - 1)
    BY <1>5, ModuleIdAssumption
  <2> QED BY <1>1, <1>6, <2>1, <2>2, WrittenType DEF OutputIsBytes, Char
<1>11. TermEnds'
  BY <1>4, <1>5, <1>6 DEF TermEnds
<1> QED BY <1>7, <1>8, <1>9, <1>10, <1>11 DEF IInv

(* The last name ends with the input: the output becomes the two ids.      *)
LEMMA CopyLastIInv == IInv /\ CopyLast => IInv'
<1> SUFFICES ASSUME IInv, CopyLast PROVE IInv'
  OBVIOUS
<1>1. at = "name"
  BY DEF CopyLast
<1>2. /\ p' = p + 1 /\ q' = q + 1 /\ at' = "done" /\ c' = Nul
      /\ qLast' = qLast /\ buf' = Written
      /\ id' = Bytes(Written, 0, q + 1)
      /\ last' = Bytes(Written, qLast, q + 1)
  BY DEF CopyLast
<1>3. /\ q \in Nat /\ q < p /\ p < Limit /\ p \in Nat /\ qLast \in Nat
      /\ qLast <= q
  BY <1>1, WrittenType, NextByte DEF IInv, TypeOK, TermEnds
<1>4. \A i \in 0..(q + 1 - 1) : Written[i] \in Char
  <2>1. \A i \in 0..(q + 1 - 1) : i \in 0..q
    BY <1>3
  <2> QED BY <1>1, <2>1, WrittenType
<1>5. Bytes(Written, 0, q + 1) \in Seq(Char)
  BY <1>3, <1>4, BytesType
<1>6. Bytes(Written, qLast, q + 1) \in Seq(Char)
  BY <1>3, <1>4, BytesType
<1>7. TypeOK'
  <2>1. p' \in 0..Limit /\ q' \in 0..Limit
    BY <1>2, <1>3, ModuleIdAssumption
  <2> QED BY <1>1, <1>2, <1>5, <1>6, <2>1, WrittenType
          DEF CopyLast, argVars, IInv, TypeOK, Byte
<1>8. ~Running'
  BY <1>2 DEF Running
<1>9. TermEnds'
  BY <1>2, <1>3 DEF TermEnds
<1> QED BY <1>7, <1>8, <1>9 DEF IInv, InBuffer, UnreadIntact, OutputIsBytes

-----------------------------------------------------------------------------
(* What does not change holds on.                                          *)
LEMMA StutterIInv == IInv /\ UNCHANGED vars => IInv'
  BY DEF IInv, vars, argVars, outVars, TypeOK, InBuffer, UnreadIntact,
         OutputIsBytes, TermEnds, Running, Given

(* The invariant is inductive.                                            *)
LEMMA NextIInv == IInv /\ [Next]_vars => IInv'
<1> SUFFICES ASSUME IInv, [Next]_vars PROVE IInv'
  OBVIOUS
<1>1. CASE Require    BY <1>1, RequireIInv
<1>2. CASE EatDot     BY <1>2, EatDotIInv
<1>3. CASE DotDot     BY <1>3, DotDotIInv
<1>4. CASE BeginName  BY <1>4, BeginNameIInv
<1>5. CASE Reject     BY <1>5, RejectIInv
<1>6. CASE Backward   BY <1>6, BackwardIInv
<1>7. CASE CopyLetter BY <1>7, CopyLetterIInv
<1>8. CASE CopySlash  BY <1>8, CopySlashIInv
<1>9. CASE CopyLast   BY <1>9, CopyLastIInv
<1>10. CASE EatSlash  BY <1>10, EatSlashIInv
<1>11. CASE Finished  BY <1>11, StutterIInv DEF Finished
<1>12. CASE UNCHANGED vars BY <1>12, StutterIInv
<1> QED BY <1>1, <1>2, <1>3, <1>4, <1>5, <1>6, <1>7, <1>8, <1>9, <1>10,
           <1>11, <1>12 DEF Next, Step

(* The assertions follow from the invariant.                               *)
LEMMA IInvAssertions == IInv => AssertionsHold
<1> SUFFICES ASSUME IInv PROVE AssertionsHold
  OBVIOUS
<1>1. at = "term" => p >= q
  BY DEF IInv, TypeOK, InBuffer, Running
<1>2. at = "term" /\ q # 0 => buf[q - 1] = Slash
  BY DEF IInv, TermEnds
<1>3. at = "done" => qLast >= 0 /\ q >= qLast
  BY DEF IInv, TypeOK, TermEnds
<1> QED BY <1>1, <1>2, <1>3 DEF AssertionsHold

(* The inductive invariant holds in every reachable state.                 *)
LEMMA AlwaysIInv == Spec => []IInv
  BY InitIInv, NextIInv, PTL DEF Spec

(* No byte is read or written outside the buffer, and ids are made of      *)
(* bytes of names, dots and slashes only.                                  *)
THEOREM TypeCorrect == Spec => []TypeOK
<1>1. IInv => TypeOK
  BY DEF IInv
<1> QED BY <1>1, AlwaysIInv, PTL

(* No assertion of the source fails, for any input.                        *)
THEOREM NoAssertionFails == Spec => []AssertionsHold
  BY IInvAssertions, AlwaysIInv, PTL

(* Resolution never reads a byte that it wrote over its input.             *)
THEOREM ReadsOnlyInput == Spec => []UnreadIntact
<1>1. IInv => UnreadIntact
  BY DEF IInv
<1> QED BY <1>1, AlwaysIInv, PTL

-----------------------------------------------------------------------------
(* Terms of ids *)

LEMMA Least ==
  ASSUME NEW T, T \subseteq Nat, T # {}
  PROVE  \E m \in T : \A k \in T : m <= k
<1> DEFINE R == OpToRel(<, Nat)
<1>1. IsWellFoundedOn(R, Nat)
  BY NatLessThanWellFounded
<1>2. \A x, y \in Nat : x < y => <<x, y>> \in R
  BY DEF OpToRel
<1> HIDE DEF R
<1>3. PICK m \in T : \A k \in T : <<k, m>> \notin R
  BY <1>1, WFMin
<1>4. ASSUME NEW k \in T PROVE m <= k
  <2>1. k \in Nat /\ m \in Nat /\ ~(k < m)
    BY <1>2, <1>3
  <2> QED
    BY <2>1
<1> QED
  BY <1>4

LEMMA Greatest ==
  ASSUME NEW n \in Nat, NEW T \in SUBSET (0..n), T # {}
  PROVE  \E m \in T : \A k \in T : k <= m
<1> DEFINE U == {n - k : k \in T}
<1>1. \A k \in T : k \in 0..n /\ n - k \in Nat /\ n - k \in U
  OBVIOUS
<1>2. U \subseteq Nat /\ U # {}
  BY <1>1
<1> HIDE DEF U
<1>3. PICK u \in U : \A v \in U : u <= v
  BY <1>2, Least
<1>4. PICK m \in T : u = n - m
  BY <1>3 DEF U
<1>5. \A k \in T : k <= m
  BY <1>1, <1>3, <1>4
<1> QED
  BY <1>5

(* The rest of a rest.                                                     *)
LEMMA RestOfRest ==
  ASSUME NEW S, NEW s \in Seq(S), NEW m \in 0..Len(s), NEW n \in 0..(Len(s) - m)
  PROVE  /\ SubSeq(s, m + 1, Len(s)) \in Seq(S)
         /\ Len(SubSeq(s, m + 1, Len(s))) = Len(s) - m
         /\ \A i \in 1..(Len(s) - m) : SubSeq(s, m + 1, Len(s))[i] = s[m + i]
         /\ SubSeq(SubSeq(s, m + 1, Len(s)), n + 1, Len(s) - m) = SubSeq(s, m + n + 1, Len(s))
  OBVIOUS

LEMMA BeginningIs ==
  ASSUME NEW S, NEW s \in Seq(S), NEW n \in 0..Len(s)
  PROVE  /\ SubSeq(s, 1, n) \in Seq(S)
         /\ Len(SubSeq(s, 1, n)) = n
         /\ \A i \in 1..n : SubSeq(s, 1, n)[i] = s[i]
  OBVIOUS

LEMMA WholeIs ==
  ASSUME NEW S, NEW s \in Seq(S)
  PROVE  SubSeq(s, 1, Len(s)) = s
  OBVIOUS

LEMMA BothAre ==
  ASSUME NEW S, NEW s \in Seq(S), NEW t \in Seq(S)
  PROVE  /\ s \o t \in Seq(S)
         /\ Len(s \o t) = Len(s) + Len(t) /\ Len(s) \in Nat /\ Len(t) \in Nat
         /\ \A i \in 1..Len(s) : (s \o t)[i] = s[i]
         /\ \A i \in 1..Len(t) : (s \o t)[Len(s) + i] = t[i]
  OBVIOUS

LEMMA UnslashedIs ==
  ASSUME NEW S, NEW s \in Seq(S), NEW n \in 0..Len(s),
         \A i \in 1..n : s[i] = Slash, n < Len(s) => s[n + 1] # Slash
  PROVE  Unslashed(s) = SubSeq(s, n + 1, Len(s))
<1> DEFINE P(k) == /\ \A i \in 1..k : s[i] = Slash
                   /\ k < Len(s) => s[k + 1] # Slash
           m == CHOOSE k \in 0..Len(s) : P(k)
<1>1. m \in 0..Len(s) /\ P(m)
  <2>1. P(n)
    OBVIOUS
  <2> QED
    BY <2>1
<1>2. Unslashed(s) = SubSeq(s, m + 1, Len(s))
  BY DEF Unslashed
<1> HIDE DEF m
<1>3. m = n
  <2>1. m < n => m + 1 \in 1..n /\ m < Len(s)
    BY <1>1
  <2>2. n < m => n + 1 \in 1..m /\ n < Len(s)
    BY <1>1
  <2>3. ~(m < n) /\ ~(n < m)
    BY <1>1, <2>1, <2>2
  <2> QED
    BY <1>1, <2>3
<1> QED
  BY <1>2, <1>3

(* Some slashes begin a sequence, perhaps none.                            *)
LEMMA SlashesBegin ==
  ASSUME NEW S, NEW s \in Seq(S)
  PROVE  \E n \in 0..Len(s) : /\ \A i \in 1..n : s[i] = Slash
                              /\ n < Len(s) => s[n + 1] # Slash
<1> DEFINE T == {i \in 1..Len(s) : s[i] # Slash}
<1>1. CASE T = {}
  BY <1>1
<1>2. CASE T # {}
  <2>1. T \subseteq Nat
    OBVIOUS
  <2>2. PICK m \in T : \A k \in T : m <= k
    BY <1>2, <2>1, Least
  <2>3. m \in 1..Len(s) /\ s[m] # Slash /\ m - 1 \in 0..Len(s)
    OBVIOUS
  <2>4. ASSUME NEW i \in 1..(m - 1) PROVE s[i] = Slash
    <3>1. i \in 1..Len(s) /\ ~(m <= i)
      BY <2>3
    <3> QED
      BY <2>2, <3>1
  <2> QED
    BY <2>3, <2>4
<1> QED
  BY <1>1, <1>2

LEMMA UnslashedSame ==
  ASSUME NEW S, NEW s \in Seq(S), s = <<>> \/ s[1] # Slash
  PROVE  Unslashed(s) = s
<1>1. 0 \in 0..Len(s) /\ (\A i \in 1..0 : s[i] = Slash) /\ (0 < Len(s) => s[0 + 1] # Slash)
  OBVIOUS
<1>2. Unslashed(s) = SubSeq(s, 0 + 1, Len(s))
  BY <1>1, UnslashedIs
<1> QED
  BY <1>2, WholeIs

LEMMA UnslashedNext ==
  ASSUME NEW S, NEW s \in Seq(S), s # <<>>, s[1] = Slash
  PROVE  Unslashed(s) = Unslashed(SubSeq(s, 2, Len(s)))
<1> DEFINE t == SubSeq(s, 2, Len(s))
<1>0. Len(s) \in Nat /\ 1 \in 0..Len(s) /\ 0 \in 0..(Len(s) - 1)
  BY EmptySeq
<1>1. t \in Seq(S) /\ Len(t) = Len(s) - 1 /\ \A i \in 1..Len(t) : t[i] = s[i + 1]
  <2>1. /\ SubSeq(s, 1 + 1, Len(s)) \in Seq(S)
        /\ Len(SubSeq(s, 1 + 1, Len(s))) = Len(s) - 1
        /\ \A i \in 1..(Len(s) - 1) : SubSeq(s, 1 + 1, Len(s))[i] = s[1 + i]
    BY <1>0, RestOfRest
  <2> QED
    BY <1>0, <2>1
<1> HIDE DEF t
<1>2. PICK n \in 0..Len(t) : (\A i \in 1..n : t[i] = Slash) /\ (n < Len(t) => t[n + 1] # Slash)
  BY <1>1, SlashesBegin
<1>3. Unslashed(t) = SubSeq(t, n + 1, Len(t))
  BY <1>1, <1>2, UnslashedIs
<1>4. n + 1 \in 0..Len(s) /\ n \in 0..Len(t)
  BY <1>0, <1>1
<1>5. ASSUME NEW i \in 1..(n + 1) PROVE s[i] = Slash
  <2>1. CASE i = 1
    BY <2>1
  <2>2. CASE i # 1
    <3>1. i - 1 \in 1..n /\ i - 1 \in 1..Len(t) /\ i = (i - 1) + 1
      BY <1>0, <1>1, <2>2
    <3> QED
      BY <1>1, <1>2, <3>1
  <2> QED
    BY <2>1, <2>2
<1>6. n + 1 < Len(s) => s[n + 1 + 1] # Slash
  BY <1>1, <1>2
<1>7. Unslashed(s) = SubSeq(s, n + 1 + 1, Len(s)) /\ n + 1 + 1 = n + 2
  BY <1>4, <1>5, <1>6, UnslashedIs
<1>8. SubSeq(t, n + 1, Len(t)) = SubSeq(s, n + 2, Len(s))
  <2>1. 1 \in 0..Len(s) /\ n \in 0..(Len(s) - 1)
    BY <1>0, <1>1, <1>4
  <2>2. SubSeq(SubSeq(s, 1 + 1, Len(s)), n + 1, Len(s) - 1) = SubSeq(s, 1 + n + 1, Len(s))
    BY <2>1, RestOfRest
  <2> QED
    BY <1>1, <2>2 DEF t
<1> QED
  BY <1>3, <1>7, <1>8 DEF t

LEMMA DirIs ==
  ASSUME NEW S, NEW s \in Seq(S), NEW n \in 0..Len(s),
         n > 0 => s[n] = Slash, \A i \in (n + 1)..Len(s) : s[i] # Slash
  PROVE  Dir(s) = SubSeq(s, 1, n)
<1> DEFINE P(k) == /\ k > 0 => s[k] = Slash
                   /\ \A i \in (k + 1)..Len(s) : s[i] # Slash
           m == CHOOSE k \in 0..Len(s) : P(k)
<1>1. m \in 0..Len(s) /\ P(m)
  <2>1. P(n)
    OBVIOUS
  <2> QED
    BY <2>1
<1>2. Dir(s) = SubSeq(s, 1, m)
  BY DEF Dir
<1> HIDE DEF m
<1>3. m = n
  <2>1. m < n => n \in (m + 1)..Len(s) /\ n > 0
    BY <1>1
  <2>2. n < m => m \in (n + 1)..Len(s) /\ m > 0
    BY <1>1
  <2>3. ~(m < n) /\ ~(n < m)
    BY <1>1, <2>1, <2>2
  <2> QED
    BY <1>1, <2>3
<1> QED
  BY <1>2, <1>3

(* Some slash is the last, if there is any.                                *)
LEMMA SlashEnds ==
  ASSUME NEW S, NEW s \in Seq(S)
  PROVE  \E n \in 0..Len(s) : /\ n > 0 => s[n] = Slash
                              /\ \A i \in (n + 1)..Len(s) : s[i] # Slash
<1> DEFINE T == {i \in 1..Len(s) : s[i] = Slash}
<1>1. CASE T = {}
  BY <1>1
<1>2. CASE T # {}
  <2>1. T \in SUBSET (0..Len(s)) /\ Len(s) \in Nat
    OBVIOUS
  <2>2. PICK m \in T : \A k \in T : k <= m
    BY <1>2, <2>1, Greatest
  <2>3. m \in 0..Len(s) /\ s[m] = Slash
    OBVIOUS
  <2>4. ASSUME NEW i \in (m + 1)..Len(s) PROVE s[i] # Slash
    <3>1. i \in 1..Len(s) /\ ~(i <= m)
      BY <2>3
    <3> QED
      BY <2>2, <3>1
  <2> QED
    BY <2>3, <2>4
<1> QED
  BY <1>1, <1>2

LEMMA DirSame ==
  ASSUME NEW S, NEW s \in Seq(S), s # <<>> => s[Len(s)] = Slash
  PROVE  Dir(s) = s
<1>1. Len(s) \in 0..Len(s) /\ (Len(s) > 0 => s[Len(s)] = Slash)
  OBVIOUS
<1>2. \A i \in (Len(s) + 1)..Len(s) : s[i] # Slash
  OBVIOUS
<1>3. Dir(s) = SubSeq(s, 1, Len(s))
  BY <1>1, <1>2, DirIs
<1> QED
  BY <1>3, WholeIs

(* The last byte of a name is not the directory's.                         *)
LEMMA DirShorter ==
  ASSUME NEW S, NEW s \in Seq(S), s # <<>>, s[Len(s)] # Slash
  PROVE  Dir(s) = Dir(SubSeq(s, 1, Len(s) - 1))
<1> DEFINE t == SubSeq(s, 1, Len(s) - 1)
<1>0. Len(s) \in Nat \ {0}
  BY EmptySeq
<1>1. t \in Seq(S) /\ Len(t) = Len(s) - 1 /\ \A i \in 1..Len(t) : t[i] = s[i]
  <2>1. Len(s) - 1 \in 0..Len(s)
    BY <1>0
  <2>2. /\ SubSeq(s, 1, Len(s) - 1) \in Seq(S) /\ Len(SubSeq(s, 1, Len(s) - 1)) = Len(s) - 1
        /\ \A i \in 1..(Len(s) - 1) : SubSeq(s, 1, Len(s) - 1)[i] = s[i]
    BY <2>1, BeginningIs
  <2> QED
    BY <2>2
<1> HIDE DEF t
<1>2. PICK n \in 0..Len(t) : (n > 0 => t[n] = Slash) /\ \A i \in (n + 1)..Len(t) : t[i] # Slash
  BY <1>1, SlashEnds
<1>3. Dir(t) = SubSeq(t, 1, n)
  BY <1>1, <1>2, DirIs
<1>4. Len(s) \in Nat /\ n \in 0..Len(s) /\ (n > 0 => s[n] = Slash)
  BY <1>1, <1>2
<1>5. \A i \in (n + 1)..Len(s) : s[i] # Slash
  BY <1>1, <1>2
<1>6. Dir(s) = SubSeq(s, 1, n)
  BY <1>4, <1>5, DirIs
<1>7. SubSeq(t, 1, n) = SubSeq(s, 1, n)
  BY <1>1, <1>2
<1> QED
  BY <1>3, <1>6, <1>7 DEF t

-----------------------------------------------------------------------------
(* What the pass has read and written *)

(* Copying the requiring module's id changes no byte of the buffer, since  *)
(* the id is canonical; then ".." takes the last name back.                *)
PrepareInv ==
    Running /\ Preparing =>
        LET n == Len(mod) IN
          /\ \A i \in 1..Len(Given) : buf[i - 1] = Given[i]
          /\ at \in {"term", "slashes"} => q = p /\ p \in 0..(n + 1) /\ (p # 0 => Given[p] = Slash)
          /\ at = "name" => q = p - 1 /\ p \in 1..n /\ c = Given[p] /\ c # Slash
          /\ at = "back" => p = n + 4 /\ q <= n /\ \A i \in (q + 1)..n : Given[i] # Slash

(* The name that is copied is the one that the rest of the input begins    *)
(* with: its last byte so far is in hand.                                  *)
NameInv ==
    at = "name" /\ ~Preparing =>
        /\ TermAt \in Nat
        /\ NameBegins(RestIn, q - qLast + 1)
        /\ c = RestIn[q - qLast + 1]
        /\ \A i \in 1..(q - qLast) : buf[qLast + i - 1] = RestIn[i]

(* Absolute ids, and the directories that lead to them.                    *)
WalkInv ==
    /\ id # <<>> => Canonical(id)
    /\ mod # <<>> => Canonical(mod)
    /\ IsDir(Reached)
    /\ Canonical(req) => /\ Running => Reached \o Rest = req
                         /\ at = "done" => id = req
                         /\ at = "error" => ~Fits(req)

PassInv == IInv /\ PrepareInv /\ NameInv /\ WalkInv

From(n) == SubSeq(Given, n + 1, Len(Given))

(* ModulePath's operators on terms are those of this module.               *)
LEMMA PathTerms ==
  ASSUME NEW s, NEW t
  PROVE  /\ Path!Dir(s) = Dir(s)
         /\ Path!Parent(s) = Parent(s)
         /\ Path!Behind(s, t) = Behind(s, t)
         /\ Path!TermBegins(s, t) <=> TermBegins(s, t)
         /\ Path!NameBegins(s, t) <=> NameBegins(s, t)
         /\ Path!IsRelative(s, t) <=> IsRelative(s, t)
<1> USE DEF Path!Dot, Path!Slash, Dot, Slash
<1>1. \A x : Path!Dir(x) = Dir(x)
  BY DEF Path!Dir, Dir
<1>2. \A x : Path!Unslashed(x) = Unslashed(x)
  BY DEF Path!Unslashed, Unslashed
<1>3. Path!Parent(s) = Parent(s)
  BY <1>1 DEF Path!Parent, Parent
<1>4. Path!Behind(s, t) = Behind(s, t)
  BY <1>2 DEF Path!Behind, Behind
<1>5. Path!TermBegins(s, t) <=> TermBegins(s, t)
  BY DEF Path!TermBegins, TermBegins
<1>6. Path!NameBegins(s, t) <=> NameBegins(s, t)
  BY DEF Path!NameBegins, NameBegins
<1>7. Path!IsRelative(s, t) <=> IsRelative(s, t)
  BY DEF Path!IsRelative, IsRelative
<1> QED
  BY <1>1, <1>3, <1>4, <1>5, <1>6, <1>7

(* What is not read yet.                                                   *)
LEMMA Unread ==
  ASSUME IInv, Running
  PROVE  /\ Given \in Seq(Char) /\ Len(Given) \in Nat
         /\ p \in 0..Len(Given)
         /\ \A i \in (p + 1)..Len(Given) : buf[i - 1] = Given[i]
         /\ buf[Len(Given)] = Nul /\ Nul \notin Char
         /\ \A i \in 1..Len(Given) : Given[i] \in Char
<1>1. Given \in Seq(Char)
  BY InputType DEF IInv, TypeOK, Given
<1>2. Len(Given) \in Nat /\ Len(Given) < Limit /\ p \in 0..Len(Given)
  BY <1>1, NextByte DEF IInv, InBuffer
<1>3. \A i \in p..Len(Given) : buf[i] = Filled(Given)[i]
  BY NextByte
<1>4. \A i \in 0..(Limit - 1) : Filled(Given)[i] =
        IF i < Len(Given) THEN Given[i + 1] ELSE IF i = Len(Given) THEN Nul ELSE Junk
  BY DEF Filled
<1>5. ASSUME NEW i \in (p + 1)..Len(Given) PROVE buf[i - 1] = Given[i]
  <2>1. i - 1 \in p..Len(Given) /\ i - 1 \in 0..(Limit - 1) /\ i - 1 < Len(Given) /\ i - 1 + 1 = i
    BY <1>2, ModuleIdAssumption
  <2> QED
    BY <1>3, <1>4, <2>1
<1>6. buf[Len(Given)] = Nul
  <2>1. Len(Given) \in p..Len(Given) /\ Len(Given) \in 0..(Limit - 1)
    BY <1>2, ModuleIdAssumption
  <2> QED
    BY <1>3, <1>4, <2>1
<1>7. Nul \notin Char
  BY ModuleIdAssumption DEF Char, Nul, Dot, Slash
<1> QED
  BY <1>1, <1>2, <1>5, <1>6, <1>7

LEMMA FromIs ==
  ASSUME Given \in Seq(Char), NEW n \in 0..Len(Given)
  PROVE  /\ From(n) \in Seq(Char)
         /\ Len(From(n)) = Len(Given) - n
         /\ \A i \in 1..(Len(Given) - n) : From(n)[i] = Given[n + i]
         /\ \A m \in 0..(Len(Given) - n) : SubSeq(From(n), m + 1, Len(From(n))) = From(n + m)
<1>1. \A m \in 0..(Len(Given) - n) :
        /\ From(n) \in Seq(Char)
        /\ Len(From(n)) = Len(Given) - n
        /\ \A i \in 1..(Len(Given) - n) : From(n)[i] = Given[n + i]
        /\ SubSeq(From(n), m + 1, Len(Given) - n) = From(n + m)
  BY RestOfRest DEF From
<1>2. 0 \in 0..(Len(Given) - n)
  OBVIOUS
<1> QED
  BY <1>1, <1>2

(* A relative id is resolved behind the requiring module's and "/../".     *)
LEMMA GivenIs ==
  ASSUME req \in Seq(Char), mod \in Seq(Char)
  PROVE  /\ ~IsRelative(mod, req) => Given = req
         /\ IsRelative(mod, req) =>
              /\ Len(Given) = Len(mod) + 4 + Len(req)
              /\ \A i \in 1..Len(mod) : Given[i] = mod[i]
              /\ Given[Len(mod) + 1] = Slash /\ Given[Len(mod) + 2] = Dot
              /\ Given[Len(mod) + 3] = Dot /\ Given[Len(mod) + 4] = Slash
              /\ Given[Len(mod) + 5] = Dot
              /\ From(Len(mod) + 4) = req
              /\ Len(mod) \in Nat \ {0} /\ Len(req) \in Nat \ {0}
<1>1. ~IsRelative(mod, req) => Given = req
  BY DEF Given, Input
<1>2. ASSUME IsRelative(mod, req)
      PROVE  /\ Len(Given) = Len(mod) + 4 + Len(req)
             /\ \A i \in 1..Len(mod) : Given[i] = mod[i]
             /\ Given[Len(mod) + 1] = Slash /\ Given[Len(mod) + 2] = Dot
             /\ Given[Len(mod) + 3] = Dot /\ Given[Len(mod) + 4] = Slash
             /\ Given[Len(mod) + 5] = Dot
             /\ From(Len(mod) + 4) = req
             /\ Len(mod) \in Nat \ {0} /\ Len(req) \in Nat \ {0}
  <2> DEFINE up == <<Slash, Dot, Dot, Slash>>
  <2>1. up \in Seq(Char) /\ Len(up) = 4 /\ up[1] = Slash /\ up[2] = Dot /\ up[3] = Dot /\ up[4] = Slash
    BY DEF Char
  <2>2. Given = (mod \o up) \o req
    BY <1>2 DEF Given, Input
  <2> HIDE DEF up
  <2>3. Len(mod) \in Nat \ {0} /\ Len(req) \in Nat \ {0} /\ req[1] = Dot
    BY <1>2, EmptySeq DEF IsRelative
  <2> DEFINE mu == mod \o up
  <2>4. /\ mu \in Seq(Char) /\ Len(mu) = Len(mod) + 4
        /\ \A i \in 1..Len(mod) : mu[i] = mod[i]
        /\ \A i \in 1..4 : mu[Len(mod) + i] = up[i]
    <3>1. mu = mod \o up /\ up \in Seq(Char)
      BY <2>1
    <3> HIDE DEF mu
    <3>2. /\ mu \in Seq(Char) /\ Len(mu) = Len(mod) + Len(up)
          /\ \A i \in 1..Len(mod) : mu[i] = mod[i]
          /\ \A i \in 1..Len(up) : mu[Len(mod) + i] = up[i]
      BY <3>1, BothAre
    <3> QED
      BY <2>1, <3>2
  <2> HIDE DEF mu
  <2>5. /\ Given \in Seq(Char) /\ Len(Given) = Len(mu) + Len(req)
        /\ \A i \in 1..Len(mu) : Given[i] = mu[i]
        /\ \A i \in 1..Len(req) : Given[Len(mu) + i] = req[i]
    <3>1. mu \in Seq(Char)
      BY <2>4
    <3>2. Given = mu \o req
      BY <2>2 DEF mu
    <3> QED
      BY <3>1, <3>2, BothAre
  <2>6. From(Len(mod) + 4) = req
    <3>1. Len(mod) + 4 \in 0..Len(Given) /\ Len(Given) - (Len(mod) + 4) = Len(req)
      BY <2>3, <2>4, <2>5
    <3>2. /\ From(Len(mod) + 4) \in Seq(Char) /\ Len(From(Len(mod) + 4)) = Len(req)
          /\ \A i \in 1..Len(req) : From(Len(mod) + 4)[i] = Given[Len(mod) + 4 + i]
      BY <2>5, <3>1, FromIs
    <3>3. \A i \in 1..Len(req) : From(Len(mod) + 4)[i] = req[i]
      BY <2>4, <2>5, <3>2
    <3> QED
      BY <3>2, <3>3, SeqEqual
  <2>7. \A i \in 1..Len(mod) : Given[i] = mod[i]
    BY <2>3, <2>4, <2>5
  <2>8. \A i \in 1..4 : Given[Len(mod) + i] = up[i]
    <3>1. \A i \in 1..4 : Len(mod) + i \in 1..Len(mu)
      BY <2>3, <2>4
    <3> QED
      BY <2>4, <2>5, <3>1
  <2>9. Given[Len(mod) + 5] = Dot
    <3>1. 1 \in 1..Len(req) /\ Len(mu) + 1 = Len(mod) + 5
      BY <2>3, <2>4
    <3> QED
      BY <2>3, <2>5, <3>1
  <2>10. /\ Given[Len(mod) + 1] = Slash /\ Given[Len(mod) + 2] = Dot
         /\ Given[Len(mod) + 3] = Dot /\ Given[Len(mod) + 4] = Slash
    BY <2>1, <2>8
  <2> QED
    BY <2>3, <2>4, <2>5, <2>6, <2>7, <2>9, <2>10
<1> QED
  BY <1>1, <1>2

LEMMA DotBegins ==
  ASSUME NEW s \in Seq(Char)
  PROVE  TermBegins(s, <<Dot>>) <=> Len(s) > 1 /\ s[1] = Dot /\ s[2] = Slash
<1>1. Len(<<Dot>>) = 1 /\ DOMAIN <<Dot>> = {1} /\ <<Dot>>[1] = Dot
  OBVIOUS
<1> QED
  BY <1>1 DEF TermBegins

LEMMA DotDotBegins ==
  ASSUME NEW s \in Seq(Char)
  PROVE  TermBegins(s, <<Dot, Dot>>) <=> Len(s) > 2 /\ s[1] = Dot /\ s[2] = Dot /\ s[3] = Slash
<1>1. /\ Len(<<Dot, Dot>>) = 2 /\ DOMAIN <<Dot, Dot>> = {1, 2}
      /\ <<Dot, Dot>>[1] = Dot /\ <<Dot, Dot>>[2] = Dot
  OBVIOUS
<1> QED
  BY <1>1 DEF TermBegins

(* Behind a term and its slash.                                            *)
LEMMA BehindIs ==
  ASSUME Given \in Seq(Char), NEW k \in 0..Len(Given), NEW n \in 1..(Len(Given) - k),
         n < Len(Given) - k, Given[k + n + 1] = Slash
  PROVE  Behind(From(k), n) = Unslashed(From(k + n + 1))
<1>1. /\ From(k) \in Seq(Char) /\ Len(From(k)) = Len(Given) - k
      /\ SubSeq(From(k), n + 1, Len(From(k))) = From(k + n)
  <2>1. n \in 0..(Len(Given) - k)
    OBVIOUS
  <2> QED
    BY <2>1, FromIs
<1>2. k + n \in 0..Len(Given) /\ Len(Given) \in Nat
  OBVIOUS
<1>3. /\ From(k + n) \in Seq(Char) /\ Len(From(k + n)) = Len(Given) - (k + n)
      /\ \A i \in 1..(Len(Given) - (k + n)) : From(k + n)[i] = Given[k + n + i]
      /\ \A m \in 0..(Len(Given) - (k + n)) :
            SubSeq(From(k + n), m + 1, Len(From(k + n))) = From(k + n + m)
  BY <1>2, FromIs
<1>4. From(k + n) # <<>> /\ From(k + n)[1] = Slash
  <2>1. 1 \in 1..(Len(Given) - (k + n))
    BY <1>2
  <2> QED
    BY <1>3, <2>1, EmptySeq
<1>5. Unslashed(From(k + n)) = Unslashed(SubSeq(From(k + n), 2, Len(From(k + n))))
  BY <1>3, <1>4, UnslashedNext
<1>6. SubSeq(From(k + n), 2, Len(From(k + n))) = From(k + n + 1)
  <2>1. 1 \in 0..(Len(Given) - (k + n)) /\ 1 + 1 = 2
    BY <1>2
  <2> QED
    BY <1>3, <2>1
<1> QED
  BY <1>1, <1>5, <1>6 DEF Behind

(* What is to be read where a term begins.                                 *)
LEMMA AtTermIs ==
  ASSUME IInv, at = "term", ~Preparing
  PROVE  /\ Running /\ Rest = From(p) /\ From(p) \in Seq(Char)
         /\ Len(From(p)) = Len(Given) - p
         /\ \A i \in 1..(Len(Given) - p) : From(p)[i] = Given[p + i] /\ From(p)[i] = buf[p + i - 1]
         /\ Reached = Bytes(buf, 0, q)
<1>1. Running
  BY DEF Running
<1>2. /\ Given \in Seq(Char) /\ Len(Given) \in Nat /\ p \in 0..Len(Given)
      /\ \A i \in (p + 1)..Len(Given) : buf[i - 1] = Given[i]
  BY <1>1, Unread
<1>3. Rest = From(p) /\ Reached = Bytes(buf, 0, q)
  BY <1>1 DEF Rest, RestIn, TermAt, From, Given, Reached, DirIn
<1>4. /\ From(p) \in Seq(Char) /\ Len(From(p)) = Len(Given) - p
      /\ \A i \in 1..(Len(Given) - p) : From(p)[i] = Given[p + i]
  BY <1>2, FromIs
<1>5. ASSUME NEW i \in 1..(Len(Given) - p) PROVE Given[p + i] = buf[p + i - 1]
  <2>1. p + i \in (p + 1)..Len(Given)
    BY <1>2
  <2> QED
    BY <1>2, <2>1
<1> QED
  BY <1>1, <1>3, <1>4, <1>5

(* Where the requiring module's id is copied.                              *)
LEMMA PrepareIs ==
  ASSUME PassInv, Running, Preparing
  PROVE  /\ Len(mod) \in Nat \ {0} /\ Len(Given) > Len(mod) + 4 /\ Canonical(mod)
         /\ \A i \in 1..Len(mod) : Given[i] = mod[i]
         /\ Given[Len(mod) + 1] = Slash /\ Given[Len(mod) + 2] = Dot
         /\ Given[Len(mod) + 3] = Dot /\ Given[Len(mod) + 4] = Slash
         /\ mod[Len(mod)] # Slash
         /\ \A i \in 1..Len(mod) : i = 1 \/ mod[i - 1] = Slash => mod[i] \notin {Dot, Slash}
         /\ Len(Given) \in Nat /\ Rest = req /\ Reached = Dir(mod)
<1>1. req \in Seq(Char) /\ mod \in Seq(Char) /\ IsRelative(mod, req)
  BY DEF PassInv, IInv, TypeOK, Preparing
<1>2. Canonical(mod)
  BY <1>1 DEF PassInv, WalkInv, IsRelative
<1>3. mod[Len(mod)] # Slash /\ \A i \in 1..Len(mod) : i = 1 \/ mod[i - 1] = Slash => mod[i] \notin {Dot, Slash}
  <2>1. DOMAIN mod = 1..Len(mod)
    BY <1>1
  <2> QED
    BY <1>2, <2>1 DEF Canonical, NamesOnly
<1>4. Rest = req /\ Reached = Dir(mod)
  BY DEF Rest, Reached
<1> QED
  BY <1>1, <1>2, <1>3, <1>4, GivenIs

(* Its terms are names; then comes "..".                                   *)
LEMMA PreparingTerm ==
  ASSUME PassInv, at \in {"term", "slashes"}, Preparing
  PROVE  /\ Running /\ q = p /\ p \in Nat
         /\ \/ p < Len(mod) /\ buf[p] \notin {Dot, Slash}
            \/ p = Len(mod) + 1 /\ buf[p] = Dot /\ buf[p + 1] = Dot /\ buf[p + 2] = Slash
<1>1. Running
  BY DEF Running
<1> DEFINE n == Len(mod)
<1>2. /\ n \in Nat \ {0} /\ Len(Given) > n + 4 /\ Len(Given) \in Nat
      /\ \A i \in 1..n : Given[i] = mod[i]
      /\ Given[n + 2] = Dot /\ Given[n + 3] = Dot /\ Given[n + 4] = Slash
      /\ mod[n] # Slash
      /\ \A i \in 1..n : i = 1 \/ mod[i - 1] = Slash => mod[i] \notin {Dot, Slash}
  BY <1>1, PrepareIs
<1>3. /\ \A i \in 1..Len(Given) : buf[i - 1] = Given[i]
      /\ q = p /\ p \in 0..(n + 1) /\ (p # 0 => Given[p] = Slash)
  BY <1>1 DEF PassInv, PrepareInv
<1> HIDE DEF n
<1>4. CASE p = n + 1
  <2>1. n + 2 \in 1..Len(Given) /\ n + 3 \in 1..Len(Given) /\ n + 4 \in 1..Len(Given)
    BY <1>2
  <2>2. buf[n + 2 - 1] = Dot /\ buf[n + 3 - 1] = Dot /\ buf[n + 4 - 1] = Slash
    BY <1>2, <1>3, <2>1
  <2>3. n + 2 - 1 = p /\ n + 3 - 1 = p + 1 /\ n + 4 - 1 = p + 2
    BY <1>2, <1>4
  <2> QED
    BY <1>1, <1>3, <1>4, <2>2, <2>3 DEF n
<1>5. CASE p \in 0..n
  <2>1. p # n
    <3>1. n \in 1..n
      BY <1>2
    <3> QED
      BY <1>2, <1>3, <3>1
  <2>2. p < n /\ p + 1 \in 1..n /\ p + 1 \in 1..Len(Given) /\ p + 1 - 1 = p
    BY <1>2, <1>5, <2>1
  <2>3. buf[p] = mod[p + 1]
    BY <1>2, <1>3, <2>2
  <2>4. p + 1 = 1 \/ mod[p + 1 - 1] = Slash
    <3>1. p # 0 => p \in 1..n
      BY <1>5
    <3> QED
      BY <1>2, <1>3, <1>5, <2>2, <3>1
  <2>5. buf[p] \notin {Dot, Slash}
    <3>1. PICK i \in 1..n : i = p + 1 /\ (i = 1 \/ mod[i - 1] = Slash)
      BY <1>2, <1>5, <2>2, <2>4
    <3>2. mod[i] \notin {Dot, Slash}
      BY <1>2, <3>1
    <3> QED
      BY <2>3, <3>1, <3>2
  <2> QED
    BY <1>1, <1>3, <1>5, <2>2, <2>5 DEF n
<1> QED
  BY <1>2, <1>3, <1>4, <1>5

(* Behind it what is read is the requested id.                             *)
LEMMA ReadOn ==
  ASSUME IInv, ~Preparing, UNCHANGED <<req, mod>>, p' \in Nat, p' >= p,
         at' = "back" => at = "back" \/ p' > p
  PROVE  /\ ~Preparing' /\ PrepareInv' /\ Given' = Given
         /\ Running' => /\ Rest' = RestIn' /\ Reached' = DirIn' /\ Status' = "walking"
                        /\ RestIn' = IF at' \in {"slashes", "back"} THEN Unslashed(From(TermAt'))
                                     ELSE From(TermAt')
<1>1. p \in Nat /\ Len(mod) \in Nat
  BY ModuleIdAssumption DEF IInv, TypeOK
<1>2. ~Preparing'
  BY <1>1 DEF Preparing
<1>3. Given' = Given
  BY DEF Given
<1>4. RestIn' = IF at' \in {"slashes", "back"} THEN Unslashed(From(TermAt')) ELSE From(TermAt')
  BY DEF RestIn, From, Given
<1> QED
  BY <1>2, <1>3, <1>4 DEF PrepareInv, Rest, Reached, Status

Kept == UNCHANGED <<req, mod, Rest, Reached, Status, id, last, requires>>

LEMMA KeptStutters == Kept => UNCHANGED Path!vars
  BY DEF Kept, Path!vars

-----------------------------------------------------------------------------
(* Every step of the pass is a step of the walk, or none *)

LEMMA EatDotStays ==
  ASSUME PassInv, EatDot
  PROVE  Path!Stay /\ PrepareInv' /\ NameInv'
<1>1. /\ Running /\ at = "term" /\ buf[p] = Dot /\ buf[p + 1] = Slash /\ p' = p + 2 /\ at' = "slashes"
      /\ UNCHANGED <<req, mod, requires, buf, q, id, last>> /\ Running'
  BY DEF EatDot, AtTerm, argVars, outVars, Running
<1>2. ~Preparing
  BY <1>1, PreparingTerm DEF Dot, Slash
<1>3. IInv
  BY DEF PassInv
<1>4. p \in Nat /\ Len(Given) \in Nat /\ p + 2 <= Len(Given)
  <2>1. buf[p] # Nul /\ buf[p + 1] # Nul
    BY <1>1 DEF Nul, Dot, Slash
  <2> QED
    BY <1>1, <1>3, <2>1, NextByte
<1>5. /\ ~Preparing' /\ PrepareInv' /\ Rest' = Unslashed(From(TermAt')) /\ Reached' = DirIn'
      /\ Status' = "walking"
  BY <1>1, <1>2, <1>3, <1>4, ReadOn
<1>6. TermAt' = p + 2 /\ DirIn' = Bytes(buf, 0, q)
  BY <1>1 DEF TermAt, DirIn
<1>7. /\ Rest = From(p) /\ Rest \in Seq(Char) /\ Len(Rest) = Len(Given) - p
      /\ \A i \in 1..(Len(Given) - p) : Rest[i] = Given[p + i] /\ Rest[i] = buf[p + i - 1]
      /\ Reached = Bytes(buf, 0, q)
  BY <1>1, <1>2, <1>3, AtTermIs
<1>8. Rest[1] = Dot /\ Rest[2] = Slash /\ Given[p + 2] = Slash /\ Len(Rest) > 1
  <2>1. 1 \in 1..(Len(Given) - p) /\ 2 \in 1..(Len(Given) - p) /\ p + 1 - 1 = p /\ p + 2 - 1 = p + 1
    BY <1>4
  <2> QED
    BY <1>1, <1>4, <1>7, <2>1
<1>9. TermBegins(Rest, <<Dot>>)
  BY <1>7, <1>8, DotBegins
<1>10. Behind(Rest, 1) = Unslashed(From(p + 2))
  <2>1. Given \in Seq(Char)
    BY <1>1, <1>3, Unread
  <2>2. p \in 0..Len(Given) /\ 1 \in 1..(Len(Given) - p) /\ 1 < Len(Given) - p /\ p + 1 + 1 = p + 2
    BY <1>4
  <2>3. Behind(From(p), 1) = Unslashed(From(p + 1 + 1))
    BY <1>8, <2>1, <2>2, BehindIs
  <2> QED
    BY <1>7, <2>2, <2>3
<1>11. Status = "walking"
  BY <1>1 DEF Status
<1>12. Path!Stay
  BY <1>1, <1>5, <1>6, <1>7, <1>9, <1>10, <1>11, PathTerms
     DEF Path!Stay, Path!Walk, Path!CanStay, Path!Dot, Dot
<1> QED
  BY <1>1, <1>5, <1>12 DEF NameInv

(* The bytes written so far.                                               *)
LEMMA WrittenIs ==
  ASSUME NEW b, NEW n \in Nat, \A i \in 0..(n - 1) : b[i] \in Char
  PROVE  /\ Bytes(b, 0, n) \in Seq(Char) /\ Len(Bytes(b, 0, n)) = n
         /\ \A i \in 1..n : Bytes(b, 0, n)[i] = b[i - 1]
<1>1. Bytes(b, 0, n) \in Seq(Char)
  <2>1. 0 \in Nat /\ 0 <= n
    OBVIOUS
  <2> QED
    BY <2>1, BytesType
<1>2. Bytes(b, 0, n) = [i \in 1..n |-> b[i - 1]]
  <2>1. n - 0 = n /\ \A i \in 1..n : 0 + i - 1 = i - 1
    OBVIOUS
  <2> QED
    BY <2>1 DEF Bytes
<1> QED
  BY <1>1, <1>2

(* The written bytes before the last one.                                  *)
LEMMA FrontBytes ==
  ASSUME NEW b, NEW n \in Nat \ {0}, \A i \in 0..(n - 1) : b[i] \in Char
  PROVE  /\ Bytes(b, 0, n) \in Seq(Char) /\ Len(Bytes(b, 0, n)) = n
         /\ Bytes(b, 0, n) # <<>> /\ Bytes(b, 0, n)[n] = b[n - 1]
         /\ SubSeq(Bytes(b, 0, n), 1, n - 1) = Bytes(b, 0, n - 1)
<1>1. n - 1 \in Nat /\ \A i \in 0..(n - 1 - 1) : i \in 0..(n - 1)
  OBVIOUS
<1>2. Bytes(b, 0, n) \in Seq(Char) /\ Bytes(b, 0, n - 1) \in Seq(Char)
  BY <1>1, BytesType
<1>3. /\ Len(Bytes(b, 0, n)) = n /\ Len(Bytes(b, 0, n - 1)) = n - 1
      /\ \A i \in 1..n : Bytes(b, 0, n)[i] = b[0 + i - 1]
      /\ \A i \in 1..(n - 1) : Bytes(b, 0, n - 1)[i] = b[0 + i - 1]
  <2>1. n \in Nat /\ n - 1 \in Nat /\ n - 0 = n /\ n - 1 - 0 = n - 1
    OBVIOUS
  <2>2. /\ Bytes(b, 0, n) = [i \in 1..n |-> b[0 + i - 1]]
        /\ Bytes(b, 0, n - 1) = [i \in 1..(n - 1) |-> b[0 + i - 1]]
    BY <2>1 DEF Bytes
  <2> QED
    BY <2>1, <2>2
<1> DEFINE s == Bytes(b, 0, n)
           t == Bytes(b, 0, n - 1)
<1> HIDE DEF s, t
<1>4. n - 1 \in 0..Len(s) /\ s \in Seq(Char)
  BY <1>2, <1>3 DEF s
<1>5. /\ SubSeq(s, 1, n - 1) \in Seq(Char) /\ Len(SubSeq(s, 1, n - 1)) = n - 1
      /\ \A i \in 1..(n - 1) : SubSeq(s, 1, n - 1)[i] = s[i]
  BY <1>4, BeginningIs
<1>6. \A i \in 1..(n - 1) : s[i] = t[i]
  BY <1>3 DEF s, t
<1>7. SubSeq(s, 1, n - 1) = t
  BY <1>2, <1>3, <1>5, <1>6, SeqEqual DEF t
<1>8. s # <<>> /\ s[n] = b[n - 1]
  <2>1. n \in 1..n /\ 0 + n - 1 = n - 1
    OBVIOUS
  <2> QED
    BY <1>3, <2>1, EmptySeq DEF s
<1> QED
  BY <1>2, <1>3, <1>7, <1>8 DEF s, t

LEMMA DotDotGoesUp ==
  ASSUME PassInv, DotDot
  PROVE  (Kept \/ Path!GoUp) /\ PrepareInv' /\ NameInv'
<1>1. /\ Running /\ at = "term" /\ IsDotDot /\ q # 0 /\ p' = p + 3 /\ q' = q - 1 /\ at' = "back"
      /\ UNCHANGED <<req, mod, requires, buf, id, last>> /\ Running'
  BY DEF DotDot, AtTerm, argVars, outVars, Running
<1>2. IInv
  BY DEF PassInv
<1>3. NameInv'
  BY <1>1 DEF NameInv
<1>4. Status = "walking" /\ Status' = "walking"
  BY <1>1 DEF Status
<1>5. p \in Nat /\ Len(Given) \in Nat /\ p + 3 <= Len(Given)
  <2>1. buf[p] # Nul /\ buf[p + 1] # Nul /\ buf[p + 2] # Nul
    BY <1>1 DEF IsDotDot, Nul, Dot, Slash
  <2> QED
    BY <1>1, <1>2, <2>1, NextByte
<1>6. CASE Preparing
  <2>1. p = Len(mod) + 1 /\ q = p
    BY <1>1, <1>6, PreparingTerm DEF IsDotDot
  <2>2. Len(mod) \in Nat /\ \A i \in 1..Len(Given) : buf[i - 1] = Given[i]
    BY <1>1, <1>6, PrepareIs DEF PassInv, PrepareInv
  <2>3. p' = Len(mod) + 4 /\ q' = Len(mod) /\ Preparing' /\ Given' = Given /\ mod' = mod
    BY <1>1, <1>6, <2>1, <2>2 DEF Preparing, Given
  <2>4. Kept
    BY <1>1, <1>4, <1>6, <2>3 DEF Kept, Rest, Reached
  <2>5. PrepareInv'
    <3>1. /\ \A i \in 1..Len(Given)' : buf'[i - 1] = Given'[i]
          /\ q' <= Len(mod)' /\ \A i \in (q' + 1)..Len(mod)' : Given'[i] # Slash
      BY <1>1, <2>2, <2>3
    <3> QED
      BY <1>1, <2>3, <3>1 DEF PrepareInv
  <2> QED
    BY <1>3, <2>4, <2>5
<1>7. CASE ~Preparing
  <2>1. /\ PrepareInv' /\ Rest' = Unslashed(From(TermAt')) /\ Reached' = DirIn'
    BY <1>1, <1>2, <1>5, <1>7, ReadOn
  <2>2. TermAt' = p + 3 /\ DirIn' = Dir(Bytes(buf, 0, q - 1))
    BY <1>1 DEF TermAt, DirIn
  <2>3. /\ Rest = From(p) /\ Rest \in Seq(Char) /\ Len(Rest) = Len(Given) - p
        /\ \A i \in 1..(Len(Given) - p) : Rest[i] = Given[p + i] /\ Rest[i] = buf[p + i - 1]
        /\ Reached = Bytes(buf, 0, q)
    BY <1>1, <1>2, <1>7, AtTermIs
  <2>4. /\ Rest[1] = Dot /\ Rest[2] = Dot /\ Rest[3] = Slash
        /\ Given[p + 3] = Slash /\ Len(Rest) > 2
    <3>1. /\ 1 \in 1..(Len(Given) - p) /\ 2 \in 1..(Len(Given) - p) /\ 3 \in 1..(Len(Given) - p)
          /\ p + 1 - 1 = p /\ p + 2 - 1 = p + 1 /\ p + 3 - 1 = p + 2
      BY <1>5
    <3> QED
      BY <1>1, <1>5, <2>3, <3>1 DEF IsDotDot
  <2>5. TermBegins(Rest, <<Dot, Dot>>)
    BY <2>3, <2>4, DotDotBegins
  <2>6. Behind(Rest, 2) = Unslashed(From(p + 3))
    <3>1. Given \in Seq(Char)
      BY <1>1, <1>2, Unread
    <3>2. p \in 0..Len(Given) /\ 2 \in 1..(Len(Given) - p) /\ 2 < Len(Given) - p /\ p + 2 + 1 = p + 3
      BY <1>5
    <3>3. Behind(From(p), 2) = Unslashed(From(p + 2 + 1))
      BY <2>4, <3>1, <3>2, BehindIs
    <3> QED
      BY <2>3, <3>2, <3>3
  <2>7. Reached # <<>> /\ Parent(Reached) = Dir(Bytes(buf, 0, q - 1))
    <3>1. q \in Nat \ {0} /\ \A i \in 0..(q - 1) : buf[i] \in Char
      BY <1>1, <1>2 DEF IInv, TypeOK, OutputIsBytes
    <3>2. /\ Len(Bytes(buf, 0, q)) = q /\ Bytes(buf, 0, q) # <<>>
          /\ SubSeq(Bytes(buf, 0, q), 1, q - 1) = Bytes(buf, 0, q - 1)
      BY <3>1, FrontBytes
    <3> QED
      BY <2>3, <3>2 DEF Parent
  <2>8. Path!GoUp
    BY <1>1, <1>4, <2>1, <2>2, <2>5, <2>6, <2>7, PathTerms
       DEF Path!GoUp, Path!Walk, Path!CanGoUp, Path!Dot, Dot
  <2> QED
    BY <1>3, <2>1, <2>8
<1> QED
  BY <1>6, <1>7

LEMMA BeginNameKeeps ==
  ASSUME PassInv, BeginName
  PROVE  Kept /\ PrepareInv' /\ NameInv'
<1>1. /\ Running /\ at = "term" /\ buf[p] \notin {Nul, Dot, Slash} /\ c' = buf[p] /\ p' = p + 1
      /\ qLast' = q /\ at' = "name"
      /\ UNCHANGED <<req, mod, requires, buf, q, id, last>> /\ Running'
  BY DEF BeginName, AtTerm, argVars, outVars, Running
<1>2. IInv
  BY DEF PassInv
<1>3. Status = "walking" /\ Status' = "walking"
  BY <1>1 DEF Status
<1>4. p \in Nat /\ q \in Nat /\ Len(Given) \in Nat /\ p + 1 <= Len(Given)
  BY <1>1, <1>2, NextByte DEF IInv, TypeOK
<1>5. CASE Preparing
  <2>1. p < Len(mod) /\ q = p
    BY <1>1, <1>5, PreparingTerm
  <2>2. Len(mod) \in Nat /\ \A i \in 1..Len(Given) : buf[i - 1] = Given[i]
    BY <1>1, <1>5, PrepareIs DEF PassInv, PrepareInv
  <2>3. Preparing' /\ Given' = Given /\ mod' = mod
    BY <1>1, <1>4, <1>5, <2>1, <2>2 DEF Preparing, Given
  <2>4. Kept
    BY <1>1, <1>3, <1>5, <2>3 DEF Kept, Rest, Reached
  <2>5. PrepareInv'
    <3>1. p' \in 1..Len(mod) /\ q = p' - 1 /\ buf[p] = Given[p']
      <4>1. p + 1 \in 1..Len(Given) /\ p + 1 - 1 = p
        BY <1>4
      <4> QED
        BY <1>1, <1>4, <2>1, <2>2, <4>1
    <3> QED
      BY <1>1, <2>2, <2>3, <3>1 DEF PrepareInv
  <2>6. NameInv'
    BY <2>3 DEF NameInv
  <2> QED
    BY <2>4, <2>5, <2>6
<1>6. CASE ~Preparing
  <2>1. /\ ~Preparing' /\ PrepareInv' /\ Rest' = RestIn' /\ RestIn' = From(TermAt') /\ Reached' = DirIn'
    BY <1>1, <1>2, <1>4, <1>6, ReadOn
  <2>2. TermAt' = p /\ DirIn' = Bytes(buf, 0, q) /\ q' - qLast' = 0
    BY <1>1, <1>4 DEF TermAt, DirIn
  <2>3. /\ Rest = From(p) /\ From(p) \in Seq(Char) /\ Len(From(p)) = Len(Given) - p
        /\ \A i \in 1..(Len(Given) - p) : From(p)[i] = buf[p + i - 1]
        /\ Reached = Bytes(buf, 0, q)
    BY <1>1, <1>2, <1>6, AtTermIs
  <2>4. Kept
    BY <1>1, <1>3, <2>1, <2>2, <2>3 DEF Kept
  <2>5. From(p)[1] = buf[p] /\ 1 \in 1..Len(From(p))
    <3>1. 1 \in 1..(Len(Given) - p) /\ p + 1 - 1 = p
      BY <1>4
    <3> QED
      BY <2>3, <3>1
  <2>6. NameBegins(From(p), 1)
    BY <1>1, <2>5 DEF NameBegins
  <2>7. NameInv'
    BY <1>1, <1>4, <2>1, <2>2, <2>5, <2>6 DEF NameInv
  <2> QED
    BY <2>1, <2>4, <2>7
<1> QED
  BY <1>5, <1>6

LEMMA RejectFails ==
  ASSUME PassInv, Reject
  PROVE  Path!Fail /\ PrepareInv' /\ NameInv'
<1>1. /\ Running /\ at = "term" /\ at' = "error" /\ ~Running'
      /\ UNCHANGED <<req, mod, requires, id, last>>
      /\ buf[p] \in {Nul, Slash} \/ (buf[p] = Dot /\ buf[p + 1] # Slash /\ (IsDotDot => q = 0))
  BY DEF Reject, AtTerm, argVars, outVars, Running
<1>2. IInv
  BY DEF PassInv
<1>3. ~Preparing
  <2>1. ASSUME Preparing PROVE FALSE
    <3>1. Running /\ Preparing /\ Len(mod) \in Nat /\ Len(Given) > Len(mod) + 4 /\ Len(Given) \in Nat
      BY <1>1, <2>1, PrepareIs
    <3>2. /\ q = p /\ p \in Nat
          /\ \/ p < Len(mod) /\ buf[p] \notin {Dot, Slash}
             \/ p = Len(mod) + 1 /\ buf[p] = Dot /\ buf[p + 1] = Dot /\ buf[p + 2] = Slash
      BY <1>1, <2>1, PreparingTerm
    <3>3. p + 1 \in (p + 1)..Len(Given)
      BY <3>1, <3>2
    <3>4. buf[p] # Nul
      <4>1. buf[p + 1 - 1] = Given[p + 1] /\ Given[p + 1] \in Char /\ Nul \notin Char
        BY <1>1, <1>2, <3>2, <3>3, Unread
      <4> QED
        BY <3>2, <4>1
    <3>5. CASE p < Len(mod) /\ buf[p] \notin {Dot, Slash}
      BY <1>1, <3>4, <3>5
    <3>6. CASE p = Len(mod) + 1 /\ buf[p] = Dot /\ buf[p + 1] = Dot /\ buf[p + 2] = Slash
      BY <1>1, <3>1, <3>2, <3>4, <3>6 DEF IsDotDot, Dot, Slash
    <3> QED
      BY <3>2, <3>5, <3>6
  <2> QED
    BY <2>1
<1>4. /\ Rest \in Seq(Char) /\ Len(Rest) = Len(Given) - p
      /\ \A i \in 1..(Len(Given) - p) : Rest[i] = Given[p + i] /\ Rest[i] = buf[p + i - 1]
      /\ Reached = Bytes(buf, 0, q) /\ p \in Nat /\ Len(Given) \in Nat
  BY <1>1, <1>2, <1>3, AtTermIs, Unread
<1>5. ASSUME NEW n \in Nat, NameBegins(Rest, n) PROVE FALSE
  <2>1. 1 \in 1..n /\ 1 \in 1..Len(Rest) /\ Rest[1] # Dot /\ Rest[1] # Slash
    BY <1>4, <1>5 DEF NameBegins
  <2>2. Rest[1] = buf[p] /\ Rest[1] \in Char
    <3>1. p + 1 - 1 = p /\ 1 \in 1..(Len(Given) - p)
      BY <1>4, <2>1
    <3> QED
      BY <1>4, <2>1, <3>1
  <2>3. Nul \notin Char
    BY <1>1, <1>2, Unread
  <2> QED
    BY <1>1, <2>1, <2>2, <2>3
<1>6. ~TermBegins(Rest, <<Dot>>)
  <2>1. ASSUME Len(Rest) > 1, Rest[1] = Dot, Rest[2] = Slash PROVE FALSE
    <3>1. 1 \in 1..(Len(Given) - p) /\ 2 \in 1..(Len(Given) - p) /\ p + 1 - 1 = p /\ p + 2 - 1 = p + 1
      BY <1>4, <2>1
    <3>2. buf[p] = Dot /\ buf[p + 1] = Slash
      BY <1>4, <2>1, <3>1
    <3> QED
      BY <1>1, <3>2 DEF Nul, Dot, Slash
  <2> QED
    BY <1>4, <2>1, DotBegins
<1>7. TermBegins(Rest, <<Dot, Dot>>) => Reached = <<>>
  <2>1. ASSUME Len(Rest) > 2, Rest[1] = Dot, Rest[2] = Dot, Rest[3] = Slash PROVE Reached = <<>>
    <3>1. /\ 1 \in 1..(Len(Given) - p) /\ 2 \in 1..(Len(Given) - p) /\ 3 \in 1..(Len(Given) - p)
          /\ p + 1 - 1 = p /\ p + 2 - 1 = p + 1 /\ p + 3 - 1 = p + 2
      BY <1>4, <2>1
    <3>2. buf[p] = Dot /\ buf[p + 1] = Dot /\ buf[p + 2] = Slash
      BY <1>4, <2>1, <3>1
    <3>3. q = 0
      BY <1>1, <3>2 DEF IsDotDot, Nul, Dot, Slash
    <3> QED
      BY <1>4, <3>3 DEF Bytes
  <2> QED
    BY <1>4, <2>1, DotDotBegins
<1>8. Len(Rest) \in Nat /\ \A n \in 1..Len(Rest) : n \in Nat
  BY <1>4
<1>9. Status = "walking" /\ Status' = "error" /\ Rest' = <<>> /\ Reached' = <<>>
  BY <1>1 DEF Status, Rest, Reached
<1>10. ~Path!CanStay /\ ~Path!CanGoUp
  BY <1>6, <1>7, PathTerms DEF Path!CanStay, Path!CanGoUp, Path!Dot, Dot
<1>11. ~Path!CanArrive /\ \A n \in 1..Len(Rest) : ~Path!CanEnter(n)
  BY <1>5, <1>8, PathTerms DEF Path!CanArrive, Path!CanEnter
<1>12. Path!Fail
  BY <1>1, <1>9, <1>10, <1>11 DEF Path!Fail, Path!Walk, Path!Stop
<1> QED
  BY <1>1, <1>12 DEF PrepareInv, NameInv

LEMMA EatSlashKeeps ==
  ASSUME PassInv, EatSlash
  PROVE  Kept /\ PrepareInv' /\ NameInv'
<1>1. /\ Running /\ at = "slashes" /\ at' \in {"slashes", "term"} /\ Running'
      /\ buf[p] = Slash => p' = p + 1 /\ at' = "slashes"
      /\ buf[p] # Slash => p' = p /\ at' = "term"
      /\ UNCHANGED <<req, mod, requires, buf, q, qLast, id, last>>
  BY DEF EatSlash, argVars, outVars, Running
<1>2. IInv
  BY DEF PassInv
<1>3. NameInv'
  BY <1>1 DEF NameInv
<1>4. Status = "walking" /\ Status' = "walking"
  BY <1>1 DEF Status
<1>5. /\ Given \in Seq(Char) /\ Len(Given) \in Nat /\ p \in 0..Len(Given)
      /\ \A i \in (p + 1)..Len(Given) : buf[i - 1] = Given[i]
      /\ buf[Len(Given)] = Nul
  BY <1>1, <1>2, Unread
<1>6. CASE Preparing
  <2>1. buf[p] # Slash
    BY <1>1, <1>6, PreparingTerm DEF Dot, Slash
  <2>2. Preparing' /\ Given' = Given
    BY <1>1, <1>6, <2>1 DEF Preparing, Given
  <2>3. Kept
    BY <1>1, <1>4, <1>6, <2>2 DEF Kept, Rest, Reached
  <2>4. PrepareInv'
    BY <1>1, <1>6, <2>1, <2>2 DEF PassInv, PrepareInv
  <2> QED
    BY <1>3, <2>3, <2>4
<1>7. CASE ~Preparing
  <2>1. p' \in Nat /\ p' >= p
    BY <1>1, <1>5
  <2>2. /\ PrepareInv' /\ Rest' = RestIn' /\ Reached' = DirIn'
        /\ RestIn' = IF at' \in {"slashes", "back"} THEN Unslashed(From(TermAt'))
                     ELSE From(TermAt')
    BY <1>1, <1>2, <1>7, <2>1, ReadOn
  <2>3. TermAt' = p' /\ DirIn' = Bytes(buf, 0, q)
    BY <1>1 DEF TermAt, DirIn
  <2>4. Rest = Unslashed(From(p)) /\ Reached = Bytes(buf, 0, q)
    BY <1>1, <1>7 DEF Rest, RestIn, TermAt, From, Given, Reached, DirIn
  <2>5. /\ From(p) \in Seq(Char) /\ Len(From(p)) = Len(Given) - p
        /\ \A i \in 1..(Len(Given) - p) : From(p)[i] = Given[p + i]
        /\ \A m \in 0..(Len(Given) - p) : SubSeq(From(p), m + 1, Len(From(p))) = From(p + m)
    BY <1>5, FromIs
  <2>6. p < Len(Given) => From(p)[1] = buf[p] /\ From(p) # <<>>
    <3>1. ASSUME p < Len(Given) PROVE From(p)[1] = buf[p] /\ From(p) # <<>>
      <4>1. 1 \in 1..(Len(Given) - p) /\ p + 1 \in (p + 1)..Len(Given) /\ p + 1 - 1 = p
        BY <1>5, <3>1
      <4> QED
        BY <1>5, <2>5, <4>1, EmptySeq
    <3> QED
      BY <3>1
  <2>7. Rest' = Rest
    <3>1. CASE buf[p] = Slash
      <4>1. p < Len(Given)
        BY <1>5, <3>1 DEF Slash, Nul
      <4>2. Unslashed(From(p)) = Unslashed(SubSeq(From(p), 2, Len(From(p))))
        BY <2>5, <2>6, <3>1, <4>1, UnslashedNext
      <4>3. SubSeq(From(p), 2, Len(From(p))) = From(p + 1)
        <5>1. 1 \in 0..(Len(Given) - p) /\ 1 + 1 = 2
          BY <1>5, <4>1
        <5> QED
          BY <2>5, <5>1
      <4> QED
        BY <1>1, <2>2, <2>3, <2>4, <3>1, <4>2, <4>3
    <3>2. CASE buf[p] # Slash
      <4>1. From(p) = <<>> \/ From(p)[1] # Slash
        <5>1. p = Len(Given) => From(p) = <<>>
          BY <1>5, <2>5, EmptySeq
        <5> QED
          BY <1>5, <2>6, <3>2, <5>1
      <4>2. Unslashed(From(p)) = From(p)
        BY <2>5, <4>1, UnslashedSame
      <4> QED
        BY <1>1, <2>2, <2>3, <2>4, <3>2, <4>2
    <3> QED
      BY <3>1, <3>2
  <2>8. Kept
    BY <1>1, <1>4, <2>2, <2>3, <2>4, <2>7 DEF Kept
  <2> QED
    BY <1>3, <2>2, <2>8
<1> QED
  BY <1>6, <1>7

(* Taking a name back byte by byte, the directory of what is left stays.   *)
LEMMA BackwardKeeps ==
  ASSUME PassInv, Backward
  PROVE  Kept /\ PrepareInv' /\ NameInv'
<1>1. /\ Running /\ at = "back" /\ at' \in {"slashes", "back"} /\ Running'
      /\ \/ at' = "back" /\ q' = q - 1 /\ q # 0 /\ buf[q - 1] # Slash
         \/ at' = "slashes" /\ q' = q /\ (q = 0 \/ buf[q - 1] = Slash)
      /\ UNCHANGED <<req, mod, requires, buf, p, qLast, id, last>>
  BY DEF Backward, argVars, outVars, Running
<1>2. IInv
  BY DEF PassInv
<1>3. NameInv'
  BY <1>1 DEF NameInv
<1>4. Status = "walking" /\ Status' = "walking"
  BY <1>1 DEF Status
<1>5. /\ q \in Nat /\ p \in Nat /\ Given' = Given /\ req \in Seq(Char) /\ mod \in Seq(Char)
      /\ Given \in Seq(Char) /\ \A i \in 0..(q - 1) : buf[i] \in Char
  BY <1>1, <1>2, Unread DEF IInv, TypeOK, OutputIsBytes, Given
<1>6. CASE Preparing
  <2>1. /\ Len(mod) \in Nat \ {0} /\ Len(Given) > Len(mod) + 4 /\ Len(Given) \in Nat
        /\ \A i \in 1..Len(mod) : Given[i] = mod[i]
        /\ Rest = req /\ Reached = Dir(mod)
    BY <1>1, <1>6, PrepareIs
  <2>2. /\ \A i \in 1..Len(Given) : buf[i - 1] = Given[i]
        /\ p = Len(mod) + 4 /\ q <= Len(mod) /\ \A i \in (q + 1)..Len(mod) : Given[i] # Slash
    BY <1>1, <1>6 DEF PassInv, PrepareInv
  <2>3. q # 0 => q \in 1..Len(mod) /\ mod[q] = buf[q - 1] /\ Given[q] = buf[q - 1]
    <3>1. q # 0 => q \in 1..Len(mod) /\ q \in 1..Len(Given)
      BY <1>5, <2>1, <2>2
    <3> QED
      BY <2>1, <2>2, <3>1
  <2>4. CASE at' = "back"
    <3>1. Preparing'
      BY <1>1, <1>6, <2>2, <2>4 DEF Preparing
    <3>2. Kept
      BY <1>1, <1>4, <1>6, <3>1 DEF Kept, Rest, Reached
    <3>3. q' <= Len(mod) /\ \A i \in (q' + 1)..Len(mod) : i = q \/ i \in (q + 1)..Len(mod)
      BY <1>1, <1>5, <2>1, <2>2, <2>4
    <3>4. \A i \in (q' + 1)..Len(mod) : Given[i] # Slash
      BY <1>1, <2>2, <2>3, <2>4, <3>3
    <3>5. PrepareInv'
      BY <1>1, <1>5, <2>2, <2>4, <3>3, <3>4 DEF PrepareInv
    <3> QED
      BY <1>3, <3>2, <3>5
  <2>5. CASE at' = "slashes"
    <3>1. ~Preparing'
      BY <1>1, <2>1, <2>2, <2>5 DEF Preparing
    <3>2. IsRelative(mod, req)
      BY <1>6 DEF Preparing
    <3>3. From(Len(mod) + 4) = req
      BY <1>5, <3>2, GivenIs
    <3>4. Unslashed(req) = req
      BY <1>5, <3>2, UnslashedSame DEF IsRelative, Dot, Slash
    <3>5. Rest' = Unslashed(From(Len(mod) + 4))
      BY <1>1, <1>5, <2>2, <2>5, <3>1 DEF Rest, RestIn, TermAt, From, Given
    <3>6. Reached' = Bytes(buf, 0, q)
      BY <1>1, <2>5, <3>1 DEF Reached, DirIn
    <3>7. Dir(mod) = SubSeq(mod, 1, q)
      <4>1. q \in 0..Len(mod) /\ Len(mod) \in Nat
        BY <1>5, <2>1, <2>2
      <4>2. q > 0 => mod[q] = Slash
        BY <1>1, <1>5, <2>3, <2>5
      <4>3. \A i \in (q + 1)..Len(mod) : i \in 1..Len(mod)
        BY <1>5, <2>1
      <4>4. \A i \in (q + 1)..Len(mod) : mod[i] # Slash
        BY <2>1, <2>2, <4>3
      <4> QED
        BY <1>5, <4>1, <4>2, <4>4, DirIs
    <3>8. SubSeq(mod, 1, q) = Bytes(buf, 0, q)
      <4>1. q \in 0..Len(mod) /\ Len(mod) \in Nat
        BY <1>5, <2>1, <2>2
      <4>2. /\ SubSeq(mod, 1, q) \in Seq(Char) /\ Len(SubSeq(mod, 1, q)) = q
            /\ \A i \in 1..q : SubSeq(mod, 1, q)[i] = mod[i]
        BY <1>5, <4>1, BeginningIs
      <4>3. /\ Bytes(buf, 0, q) \in Seq(Char) /\ Len(Bytes(buf, 0, q)) = q
            /\ \A i \in 1..q : Bytes(buf, 0, q)[i] = buf[i - 1]
        BY <1>5, WrittenIs
      <4>4. \A i \in 1..q : i \in 1..Len(mod) /\ i \in 1..Len(Given)
        BY <2>1, <4>1
      <4>5. \A i \in 1..q : mod[i] = buf[i - 1]
        BY <2>1, <2>2, <4>4
      <4> QED
        BY <4>2, <4>3, <4>5, SeqEqual
    <3>9. Kept
      BY <1>1, <1>4, <2>1, <3>3, <3>4, <3>5, <3>6, <3>7, <3>8 DEF Kept
    <3> QED
      BY <1>3, <3>1, <3>9 DEF PrepareInv
  <2> QED
    BY <1>1, <2>4, <2>5
<1>7. CASE ~Preparing
  <2>1. /\ PrepareInv' /\ Rest' = Unslashed(From(TermAt')) /\ Reached' = DirIn'
    BY <1>1, <1>2, <1>5, <1>7, ReadOn
  <2>2. TermAt' = p
    BY <1>1 DEF TermAt
  <2>3. Rest = Unslashed(From(p)) /\ Reached = Dir(Bytes(buf, 0, q))
    BY <1>1, <1>7 DEF Rest, RestIn, TermAt, From, Given, Reached, DirIn
  <2>4. DirIn' = Dir(Bytes(buf, 0, q))
    <3>1. CASE at' = "back"
      <4>1. DirIn' = Dir(Bytes(buf, 0, q - 1))
        BY <1>1, <3>1 DEF DirIn
      <4>2. q \in Nat \ {0} /\ buf[q - 1] # Slash
        BY <1>1, <1>5, <3>1
      <4>3. /\ Bytes(buf, 0, q) \in Seq(Char) /\ Len(Bytes(buf, 0, q)) = q
            /\ Bytes(buf, 0, q) # <<>> /\ Bytes(buf, 0, q)[q] = buf[q - 1]
            /\ SubSeq(Bytes(buf, 0, q), 1, q - 1) = Bytes(buf, 0, q - 1)
        BY <1>5, <4>2, FrontBytes
      <4>4. Dir(Bytes(buf, 0, q)) = Dir(SubSeq(Bytes(buf, 0, q), 1, q - 1))
        BY <4>2, <4>3, DirShorter
      <4> QED
        BY <4>1, <4>3, <4>4
    <3>2. CASE at' = "slashes"
      <4>1. DirIn' = Bytes(buf, 0, q)
        BY <1>1, <3>2 DEF DirIn
      <4>2. /\ Bytes(buf, 0, q) \in Seq(Char) /\ Len(Bytes(buf, 0, q)) = q
            /\ \A i \in 1..q : Bytes(buf, 0, q)[i] = buf[i - 1]
        BY <1>5, WrittenIs
      <4>3. Bytes(buf, 0, q) # <<>> => Bytes(buf, 0, q)[q] = Slash
        <5>1. Bytes(buf, 0, q) # <<>> => q \in 1..q /\ q # 0
          BY <1>5, <4>2, EmptySeq
        <5> QED
          BY <1>1, <3>2, <4>2, <5>1
      <4> QED
        BY <4>1, <4>2, <4>3, DirSame
    <3> QED
      BY <1>1, <3>1, <3>2
  <2>5. Kept
    BY <1>1, <1>4, <2>1, <2>2, <2>3, <2>4 DEF Kept
  <2> QED
    BY <1>3, <2>1, <2>5
<1> QED
  BY <1>6, <1>7

(* Writing the byte in hand leaves what was written before it.             *)
LEMMA WrittenBefore ==
  ASSUME IInv, at = "name"
  PROVE  /\ Written[q] = c /\ \A i \in 0..(q - 1) : Written[i] = buf[i]
         /\ \A n \in 0..q : Bytes(Written, 0, n) = Bytes(buf, 0, n)
<1>1. q \in Nat /\ q < Limit /\ p \in Nat /\ Limit \in Nat
  BY WrittenType, ModuleIdAssumption DEF IInv, TypeOK
<1>2. /\ Written[q] = c
      /\ \A i \in 0..(Limit - 1) : i # q => Written[i] = buf[i]
  <2>1. q \in 0..(Limit - 1)
    BY <1>1
  <2> QED
    BY <2>1 DEF Written, IInv, TypeOK
<1>3. \A i \in 0..(q - 1) : i # q /\ i \in 0..(Limit - 1)
  BY <1>1
<1>4. \A i \in 0..(q - 1) : Written[i] = buf[i]
  BY <1>2, <1>3
<1>5. ASSUME NEW n \in 0..q PROVE Bytes(Written, 0, n) = Bytes(buf, 0, n)
  <2>1. \A i \in 1..(n - 0) : 0 + i - 1 \in 0..(q - 1)
    BY <1>1
  <2> QED
    BY <1>4, <2>1 DEF Bytes
<1> QED
  BY <1>2, <1>4, <1>5

(* A name that is copied begins the rest; what is written of it, with the  *)
(* byte in hand, ends where the next byte is read.                         *)
LEMMA NameIs ==
  ASSUME PassInv, at = "name", ~Preparing,
         NEW t, t = TermAt, NEW k, k = q - qLast + 1
  PROVE  /\ t \in Nat /\ k \in Nat \ {0} /\ t + k = p /\ qLast \in Nat /\ qLast + k = q + 1
         /\ Rest = From(t) /\ RestIn = From(t) /\ Reached = Bytes(Written, 0, qLast)
         /\ From(t) \in Seq(Char) /\ Len(From(t)) = Len(Given) - t /\ k <= Len(From(t))
         /\ \A i \in 1..(Len(Given) - t) : From(t)[i] = Given[t + i]
         /\ From(t)[1] # Dot /\ \A i \in 1..k : From(t)[i] # Slash
         /\ \A i \in 1..k : Written[qLast + i - 1] = From(t)[i]
<1>1. IInv /\ Running
  BY WrittenType DEF PassInv
<1>2. /\ q \in Nat /\ p \in Nat /\ qLast \in Nat /\ qLast <= q
  BY <1>1 DEF IInv, TypeOK, TermEnds
<1>3. t = p - 1 - (q - qLast) /\ t \in Nat
  BY DEF TermAt, PassInv, NameInv
<1>4. k \in Nat \ {0} /\ t + k = p /\ qLast + k = q + 1 /\ qLast \in 0..q
  BY <1>2, <1>3
<1>5. RestIn = From(t)
  BY DEF RestIn, From, Given
<1>6. Rest = From(t) /\ Reached = Bytes(buf, 0, qLast)
  BY <1>1, <1>5 DEF Rest, Reached, DirIn
<1>7. Reached = Bytes(Written, 0, qLast)
  BY <1>1, <1>4, <1>6, WrittenBefore
<1>8. Given \in Seq(Char) /\ Len(Given) \in Nat /\ p \in 0..Len(Given)
  BY <1>1, Unread
<1>9. t \in 0..Len(Given)
  BY <1>3, <1>4, <1>8
<1>10. /\ From(t) \in Seq(Char) /\ Len(From(t)) = Len(Given) - t
       /\ \A i \in 1..(Len(Given) - t) : From(t)[i] = Given[t + i]
  BY <1>8, <1>9, FromIs
<1>11. /\ NameBegins(From(t), k) /\ c = From(t)[k]
       /\ \A i \in 1..(q - qLast) : buf[qLast + i - 1] = From(t)[i]
  BY <1>5 DEF PassInv, NameInv
<1>12. k <= Len(From(t)) /\ From(t)[1] # Dot /\ \A i \in 1..k : From(t)[i] # Slash
  BY <1>4, <1>11 DEF NameBegins
<1>13. ASSUME NEW i \in 1..k PROVE Written[qLast + i - 1] = From(t)[i]
  <2>1. CASE i = k
    <3>1. qLast + i - 1 = q
      BY <1>2, <1>4, <2>1
    <3> QED
      BY <1>1, <1>11, <2>1, <3>1, WrittenBefore
  <2>2. CASE i # k
    <3>1. i \in 1..(q - qLast) /\ qLast + i - 1 \in 0..(q - 1)
      BY <1>2, <1>4, <2>2
    <3>2. Written[qLast + i - 1] = buf[qLast + i - 1]
      BY <1>1, <3>1, WrittenBefore
    <3> QED
      BY <1>11, <3>1, <3>2
  <2> QED
    BY <2>1, <2>2
<1> QED
  BY <1>2, <1>3, <1>4, <1>5, <1>6, <1>7, <1>10, <1>12, <1>13

LEMMA CopyLetterKeeps ==
  ASSUME PassInv, CopyLetter
  PROVE  Kept /\ PrepareInv' /\ NameInv'
<1>1. /\ at = "name" /\ at' = "name" /\ buf' = Written /\ Written[p] \notin {Nul, Slash}
      /\ q' = q + 1 /\ c' = Written[p] /\ p' = p + 1
      /\ UNCHANGED <<req, mod, requires, qLast, id, last>>
  BY DEF CopyLetter, argVars, outVars
<1>2. IInv
  BY DEF PassInv
<1>3. Running /\ Running' /\ Status = "walking" /\ Status' = "walking"
  BY <1>1 DEF Status, Running
<1>4. /\ q \in Nat /\ p \in Nat /\ q < p /\ Given' = Given /\ Len(Given) \in Nat
      /\ p + 1 <= Len(Given) /\ Written[p] = Given[p + 1]
  <2>1. /\ Len(Given) \in Nat /\ p \in 0..Len(Given) /\ buf[Len(Given)] = Nul
        /\ \A i \in (p + 1)..Len(Given) : buf[i - 1] = Given[i]
    BY <1>2, <1>3, Unread
  <2>2. q \in Nat /\ q < p /\ Written[p] = buf[p]
    <3>1. p \in p..Len(Given)
      BY <2>1
    <3> QED
      BY <1>1, <1>2, <3>1, WrittenType
  <2>3. p # Len(Given)
    BY <1>1, <2>1, <2>2
  <2>4. p + 1 \in (p + 1)..Len(Given) /\ p + 1 - 1 = p
    BY <2>1, <2>3
  <2> QED
    BY <1>1, <2>1, <2>2, <2>4 DEF Given
<1>5. CASE Preparing
  <2>1. /\ Len(mod) \in Nat \ {0} /\ Given[Len(mod) + 1] = Slash
    BY <1>3, <1>5, PrepareIs
  <2>2. /\ \A i \in 1..Len(Given) : buf[i - 1] = Given[i]
        /\ q = p - 1 /\ p \in 1..Len(mod) /\ c = Given[p]
    BY <1>1, <1>3, <1>5 DEF PassInv, PrepareInv
  <2>3. p + 1 \in 1..Len(mod) /\ p + 1 < Len(mod) + 4
    <3>1. p # Len(mod)
      BY <1>1, <1>4, <2>1
    <3> QED
      BY <1>4, <2>1, <2>2, <3>1
  <2>4. Preparing'
    BY <1>1, <1>5, <2>3 DEF Preparing
  <2>5. Kept
    BY <1>1, <1>3, <1>5, <2>4 DEF Kept, Rest, Reached
  <2>6. \A i \in 1..Len(Given) : Written[i - 1] = Given[i]
    <3>1. ASSUME NEW i \in 1..Len(Given) PROVE Written[i - 1] = Given[i]
      <4>1. i - 1 \in 0..(q - 1) \/ i - 1 = q \/ i - 1 \in p..Len(Given)
        BY <1>4, <2>2
      <4>2. CASE i - 1 = q
        BY <1>1, <1>2, <1>4, <2>2, <4>2, WrittenBefore
      <4>3. CASE i - 1 \in 0..(q - 1)
        BY <1>1, <1>2, <2>2, <4>3, WrittenBefore
      <4>4. CASE i - 1 \in p..Len(Given)
        BY <1>1, <1>2, <2>2, <4>4, WrittenType
      <4> QED
        BY <4>1, <4>2, <4>3, <4>4
    <3> QED
      BY <3>1
  <2>7. PrepareInv'
    BY <1>1, <1>4, <2>2, <2>3, <2>6 DEF PrepareInv
  <2>8. NameInv'
    BY <2>4 DEF NameInv
  <2> QED
    BY <2>5, <2>7, <2>8
<1>6. CASE ~Preparing
  <2>1. /\ ~Preparing' /\ PrepareInv' /\ Rest' = RestIn' /\ RestIn' = From(TermAt') /\ Reached' = DirIn'
    BY <1>1, <1>2, <1>3, <1>4, <1>6, ReadOn
  <2> DEFINE t == TermAt
             k == q - qLast + 1
  <2>2. /\ t \in Nat /\ k \in Nat \ {0} /\ t + k = p /\ qLast \in Nat /\ qLast + k = q + 1
        /\ Rest = From(t) /\ RestIn = From(t) /\ Reached = Bytes(Written, 0, qLast)
        /\ From(t) \in Seq(Char) /\ Len(From(t)) = Len(Given) - t /\ k <= Len(From(t))
        /\ \A i \in 1..(Len(Given) - t) : From(t)[i] = Given[t + i]
        /\ From(t)[1] # Dot /\ \A i \in 1..k : From(t)[i] # Slash
        /\ \A i \in 1..k : Written[qLast + i - 1] = From(t)[i]
    BY <1>1, <1>6, NameIs
  <2>3. t = p - 1 - (q - qLast) /\ q' - qLast' + 1 = k + 1 /\ q' - qLast' = k
    BY <1>1, <1>4, <2>2 DEF TermAt
  <2> HIDE DEF t, k
  <2>4. TermAt' = t /\ DirIn' = Bytes(Written, 0, qLast)
    <3>1. TermAt' = p' - 1 - (q' - qLast')
      BY <1>1 DEF TermAt
    <3>2. p' - 1 - (q' - qLast') = p - 1 - (q - qLast)
      <4>1. p' = p + 1 /\ q' = q + 1 /\ qLast' = qLast
        BY <1>1
      <4>2. p \in Nat /\ q \in Nat /\ qLast \in Nat
        BY <1>4, <2>2
      <4> QED
        BY <4>1, <4>2
    <3>3. DirIn' = Bytes(Written, 0, qLast)
      BY <1>1 DEF DirIn
    <3> QED
      BY <2>3, <3>1, <3>2, <3>3
  <2>5. Kept
    BY <1>1, <1>3, <2>1, <2>2, <2>4 DEF Kept
  <2>6. k + 1 \in 1..(Len(Given) - t) /\ From(t)[k + 1] = Written[p]
    <3>1. k + 1 \in 1..(Len(Given) - t) /\ t + (k + 1) = p + 1
      <4>1. /\ t \in Nat /\ k \in Nat \ {0} /\ t + k = p
            /\ Len(Given) \in Nat /\ p + 1 <= Len(Given)
        BY <1>4, <2>2
      <4> QED
        BY <4>1
    <3> QED
      BY <1>4, <2>2, <3>1
  <2>7. NameBegins(From(t), k + 1)
    <3>1. \A i \in 1..(k + 1) : i = k + 1 \/ i \in 1..k
      BY <2>2
    <3> QED
      BY <1>1, <2>2, <2>6, <3>1 DEF NameBegins
  <2>8. NameInv'
    BY <1>1, <2>1, <2>2, <2>3, <2>4, <2>6, <2>7 DEF NameInv
  <2> QED
    BY <2>1, <2>5, <2>8
<1> QED
  BY <1>5, <1>6

LEMMA Joined ==
  ASSUME NEW S, NEW s \in Seq(S), NEW t \in Seq(S), NEW u \in Seq(S),
         Len(u) = Len(s) + Len(t),
         \A i \in 1..Len(s) : u[i] = s[i], \A i \in 1..Len(t) : u[Len(s) + i] = t[i]
  PROVE  u = s \o t
<1> DEFINE v == s \o t
<1>1. /\ v \in Seq(S) /\ Len(v) = Len(s) + Len(t) /\ Len(s) \in Nat /\ Len(t) \in Nat
      /\ \A i \in 1..Len(s) : v[i] = s[i]
      /\ \A i \in 1..Len(t) : v[Len(s) + i] = t[i]
  BY BothAre
<1> HIDE DEF v
<1>2. ASSUME NEW i \in 1..Len(u) PROVE u[i] = v[i]
  <2>1. CASE i <= Len(s)
    <3>1. i \in 1..Len(s)
      BY <1>1, <2>1
    <3> QED
      BY <1>1, <3>1
  <2>2. CASE ~(i <= Len(s))
    <3>1. i - Len(s) \in 1..Len(t) /\ Len(s) + (i - Len(s)) = i
      BY <1>1, <2>2
    <3>2. u[Len(s) + (i - Len(s))] = t[i - Len(s)] /\ v[Len(s) + (i - Len(s))] = t[i - Len(s)]
      BY <1>1, <3>1
    <3> QED
      BY <3>1, <3>2
  <2> QED
    BY <2>1, <2>2
<1>3. u = v
  BY <1>1, <1>2, SeqEqual
<1> QED
  BY <1>3 DEF v

LEMMA CopySlashEnters ==
  ASSUME PassInv, CopySlash
  PROVE  (Kept \/ \E n \in 1..Len(Rest) : Path!Enter(n)) /\ PrepareInv' /\ NameInv'
<1>1. /\ at = "name" /\ at' = "slashes" /\ Written[p] = Slash
      /\ buf' = [Written EXCEPT ![q + 1] = Slash]
      /\ q' = q + 2 /\ p' = p + 1
      /\ UNCHANGED <<req, mod, requires, qLast, id, last>>
  BY DEF CopySlash, argVars, outVars
<1>2. IInv
  BY DEF PassInv
<1>3. Running /\ Running' /\ Status = "walking" /\ Status' = "walking" /\ NameInv'
  BY <1>1 DEF Status, Running, NameInv
<1>4. /\ q \in Nat /\ p \in Nat /\ q < p /\ Given' = Given /\ Len(Given) \in Nat /\ Given \in Seq(Char)
      /\ p + 1 <= Len(Given) /\ Given[p + 1] = Slash
  <2>1. /\ Len(Given) \in Nat /\ p \in 0..Len(Given) /\ buf[Len(Given)] = Nul /\ Given \in Seq(Char)
        /\ \A i \in (p + 1)..Len(Given) : buf[i - 1] = Given[i]
    BY <1>2, <1>3, Unread
  <2>2. q \in Nat /\ q < p /\ Written[p] = buf[p]
    <3>1. p \in p..Len(Given)
      BY <2>1
    <3> QED
      BY <1>1, <1>2, <3>1, WrittenType
  <2>3. p # Len(Given)
    BY <1>1, <2>1, <2>2 DEF Slash, Nul
  <2>4. p + 1 \in (p + 1)..Len(Given) /\ p + 1 - 1 = p
    BY <2>1, <2>3
  <2> QED
    BY <1>1, <2>1, <2>2, <2>4 DEF Given
<1>5. /\ buf'[q + 1] = Slash /\ \A i \in 0..q : buf'[i] = Written[i]
      /\ \A i \in (p + 1)..(Len(Given) - 1) : buf'[i] = Written[i]
  <2>1. q + 1 \in 0..(Limit - 1) /\ Len(Given) < Limit /\ Limit \in Nat
    <3>1. p < Limit /\ Limit \in Nat
      BY <1>1, <1>2, WrittenType, ModuleIdAssumption
    <3>2. Len(Given) < Limit
      BY <1>2, <1>3 DEF IInv, InBuffer
    <3> QED
      BY <1>4, <3>1, <3>2
  <2>2. buf'[q + 1] = Slash /\ \A i \in 0..(Limit - 1) : i # q + 1 => buf'[i] = Written[i]
    BY <1>1, <1>2, <2>1, WrittenType
  <2>3. \A i \in 0..q : i \in 0..(Limit - 1) /\ i # q + 1
    BY <1>4, <2>1
  <2>4. \A i \in (p + 1)..(Len(Given) - 1) : i \in 0..(Limit - 1) /\ i # q + 1
    BY <1>4, <2>1
  <2> QED
    BY <2>2, <2>3, <2>4
<1>6. CASE Preparing
  <2>1. /\ \A i \in 1..Len(Given) : buf[i - 1] = Given[i]
        /\ q = p - 1 /\ p \in 1..Len(mod) /\ c = Given[p]
    BY <1>1, <1>3, <1>6 DEF PassInv, PrepareInv
  <2>2. Len(mod) \in Nat
    BY <1>3, <1>6, PrepareIs
  <2>3. Preparing'
    BY <1>1, <1>4, <1>6, <2>1, <2>2 DEF Preparing
  <2>4. Kept
    BY <1>1, <1>3, <1>6, <2>3 DEF Kept, Rest, Reached
  <2>5. ASSUME NEW i \in 1..Len(Given) PROVE buf'[i - 1] = Given[i]
    <3>1. i - 1 \in 0..(q - 1) \/ i - 1 = q \/ i - 1 = q + 1 \/ i - 1 \in (p + 1)..(Len(Given) - 1)
      BY <1>4, <2>1
    <3>2. CASE i - 1 \in 0..(q - 1)
      <4>1. i - 1 \in 0..q
        BY <1>4, <3>2
      <4> QED
        BY <1>1, <1>2, <1>5, <2>1, <3>2, <4>1, WrittenBefore
    <3>3. CASE i - 1 = q
      <4>1. q \in 0..q /\ i = p
        BY <1>4, <2>1, <3>3
      <4> QED
        BY <1>1, <1>2, <1>5, <2>1, <3>3, <4>1, WrittenBefore
    <3>4. CASE i - 1 = q + 1
      <4>1. i = p + 1
        BY <1>4, <2>1, <3>4
      <4> QED
        BY <1>4, <1>5, <3>4, <4>1
    <3>5. CASE i - 1 \in (p + 1)..(Len(Given) - 1)
      <4>1. i - 1 \in p..Len(Given)
        BY <1>4, <3>5
      <4> QED
        BY <1>1, <1>2, <1>5, <2>1, <3>5, <4>1, WrittenType
    <3> QED
      BY <3>1, <3>2, <3>3, <3>4, <3>5
  <2>6. q' = p' /\ p' \in 0..(Len(mod) + 1) /\ Given[p'] = Slash
    <3>1. q = p - 1 /\ p \in 1..Len(mod) /\ p \in Nat /\ p' = p + 1 /\ q' = q + 2
      BY <1>1, <1>4, <2>1
    <3>2. q' = p' /\ p' \in 0..(Len(mod) + 1)
      BY <2>2, <3>1
    <3> QED
      BY <1>4, <3>1, <3>2
  <2>7. PrepareInv'
    BY <1>1, <1>4, <2>5, <2>6 DEF PrepareInv
  <2> QED
    BY <1>3, <2>4, <2>7
<1>7. CASE ~Preparing
  <2>1. /\ PrepareInv' /\ Rest' = Unslashed(From(TermAt')) /\ Reached' = DirIn'
    BY <1>1, <1>2, <1>3, <1>4, <1>7, ReadOn
  <2>2. TermAt' = p + 1 /\ DirIn' = Bytes(buf', 0, q + 2)
    BY <1>1 DEF TermAt, DirIn
  <2> DEFINE t == TermAt
             k == q - qLast + 1
  <2>3. /\ t \in Nat /\ k \in Nat \ {0} /\ t + k = p /\ qLast \in Nat /\ qLast + k = q + 1
        /\ Rest = From(t) /\ Reached = Bytes(Written, 0, qLast)
        /\ From(t) \in Seq(Char) /\ Len(From(t)) = Len(Given) - t
        /\ \A i \in 1..(Len(Given) - t) : From(t)[i] = Given[t + i]
        /\ From(t)[1] # Dot /\ \A i \in 1..k : From(t)[i] # Slash
        /\ \A i \in 1..k : Written[qLast + i - 1] = From(t)[i]
    BY <1>1, <1>7, NameIs
  <2> HIDE DEF t, k
  <2>4. k < Len(From(t)) /\ From(t)[k + 1] = Slash /\ k \in 1..Len(From(t))
    <3>1. k + 1 \in 1..(Len(Given) - t) /\ t + (k + 1) = p + 1
      <4>1. /\ t \in Nat /\ k \in Nat \ {0} /\ t + k = p
            /\ Len(Given) \in Nat /\ p + 1 <= Len(Given)
        BY <1>4, <2>3
      <4> QED
        BY <4>1
    <3>2. From(t)[k + 1] = Slash
      <4>1. From(t)[k + 1] = Given[t + (k + 1)]
        BY <2>3, <3>1
      <4> QED
        BY <1>4, <3>1, <4>1
    <3>3. k < Len(From(t)) /\ k \in 1..Len(From(t))
      <4>1. /\ t \in Nat /\ k \in Nat \ {0} /\ t + k = p /\ Len(From(t)) = Len(Given) - t
            /\ Len(Given) \in Nat /\ p + 1 <= Len(Given)
        BY <1>4, <2>3
      <4> QED
        BY <4>1
    <3> QED
      BY <3>2, <3>3
  <2>5. NameBegins(From(t), k)
    BY <2>3, <2>4 DEF NameBegins
  <2>6. Behind(From(t), k) = Unslashed(From(p + 1))
    <3>1. t \in 0..Len(Given) /\ k \in 1..(Len(Given) - t) /\ k < Len(Given) - t /\ t + k + 1 = p + 1
      BY <1>4, <2>3, <2>4
    <3>2. Behind(From(t), k) = Unslashed(From(t + k + 1))
      BY <1>4, <3>1, BehindIs
    <3> QED
      BY <3>1, <3>2
  <2>7. Bytes(buf', 0, q + 2) = Reached \o SubSeq(From(t), 1, k + 1)
    <3>1. \A i \in 0..q : Written[i] \in Char
      BY <1>1, <1>2, WrittenType
    <3>2. qLast \in Nat /\ \A i \in 0..(qLast - 1) : i \in 0..q
      BY <1>4, <2>3
    <3>3. /\ Bytes(Written, 0, qLast) \in Seq(Char) /\ Len(Bytes(Written, 0, qLast)) = qLast
          /\ \A i \in 1..qLast : Bytes(Written, 0, qLast)[i] = Written[i - 1]
      BY <3>1, <3>2, WrittenIs
    <3> DEFINE m == q + 2
    <3>4. m \in Nat /\ m - 1 = q + 1 /\ m = qLast + (k + 1)
      BY <1>4, <2>3
    <3> HIDE DEF m
    <3>5. /\ Bytes(buf', 0, m) \in Seq(Char) /\ Len(Bytes(buf', 0, m)) = m
          /\ \A i \in 1..m : Bytes(buf', 0, m)[i] = buf'[i - 1]
      <4>1. \A i \in 0..(m - 1) : i \in 0..q \/ i = q + 1
        BY <1>4, <3>4
      <4>2. \A i \in 0..(m - 1) : buf'[i] \in Char
        BY <1>5, <3>1, <4>1 DEF Char
      <4> QED
        BY <3>4, <4>2, WrittenIs
    <3>6. /\ SubSeq(From(t), 1, k + 1) \in Seq(Char) /\ Len(SubSeq(From(t), 1, k + 1)) = k + 1
          /\ \A i \in 1..(k + 1) : SubSeq(From(t), 1, k + 1)[i] = From(t)[i]
      <4>1. k + 1 \in 0..Len(From(t))
        BY <1>4, <2>3, <2>4
      <4> QED
        BY <2>3, <4>1, BeginningIs
    <3>7. ASSUME NEW i \in 1..qLast PROVE Bytes(buf', 0, m)[i] = Bytes(Written, 0, qLast)[i]
      <4>1. i \in 1..m /\ i - 1 \in 0..q
        BY <1>4, <2>3, <3>4
      <4> QED
        BY <1>5, <3>3, <3>5, <4>1
    <3>8. ASSUME NEW i \in 1..(k + 1)
          PROVE  Bytes(buf', 0, m)[qLast + i] = SubSeq(From(t), 1, k + 1)[i]
      <4>1. PICK j \in 1..m : j = qLast + i
        BY <2>3, <3>4
      <4>2. Bytes(buf', 0, m)[j] = buf'[j - 1] /\ SubSeq(From(t), 1, k + 1)[i] = From(t)[i]
        BY <3>5, <3>6
      <4>3. CASE i = k + 1
        <5>1. j - 1 = q + 1
          BY <1>4, <2>3, <4>1, <4>3
        <5>2. From(t)[i] = Slash
          BY <2>4, <4>3
        <5> QED
          BY <1>5, <4>1, <4>2, <5>1, <5>2
      <4>4. CASE i # k + 1
        <5>1. i \in 1..k /\ j - 1 \in 0..q /\ j - 1 = qLast + i - 1
          BY <1>4, <2>3, <4>1, <4>4
        <5>2. Written[qLast + i - 1] = From(t)[i]
          BY <2>3, <5>1
        <5> QED
          BY <1>5, <4>1, <4>2, <5>1, <5>2
      <4> QED
        BY <4>3, <4>4
    <3> DEFINE u == Bytes(buf', 0, m)
               d == Bytes(Written, 0, qLast)
               e == SubSeq(From(t), 1, k + 1)
    <3>9. /\ u \in Seq(Char) /\ d \in Seq(Char) /\ e \in Seq(Char) /\ Len(u) = Len(d) + Len(e)
          /\ \A i \in 1..Len(d) : u[i] = d[i]
          /\ \A i \in 1..Len(e) : u[Len(d) + i] = e[i]
      BY <3>3, <3>4, <3>5, <3>6, <3>7, <3>8
    <3> HIDE DEF u, d, e
    <3>10. u = d \o e
      BY <3>9, Joined
    <3> QED
      BY <2>3, <3>10 DEF u, d, e, m
  <2>8. Path!Enter(k)
    BY <1>1, <1>3, <2>1, <2>2, <2>3, <2>4, <2>5, <2>6, <2>7, PathTerms
       DEF Path!Enter, Path!Walk, Path!CanEnter, Path!Slash, Slash
  <2>9. \E n \in 1..Len(Rest) : Path!Enter(n)
    BY <2>3, <2>4, <2>8
  <2> QED
    BY <1>3, <2>1, <2>9
<1> QED
  BY <1>6, <1>7

LEMMA CopyLastArrives ==
  ASSUME PassInv, CopyLast
  PROVE  Path!Arrive /\ PrepareInv' /\ NameInv'
<1>1. /\ at = "name" /\ at' = "done" /\ Written[p] = Nul
      /\ id' = Bytes(Written, 0, q + 1) /\ last' = Bytes(Written, qLast, q + 1)
      /\ UNCHANGED <<req, mod, requires>>
  BY DEF CopyLast, argVars
<1>2. IInv
  BY DEF PassInv
<1>3. /\ Running /\ ~Running' /\ Status = "walking" /\ Status' = "done"
      /\ Rest' = <<>> /\ Reached' = <<>>
  BY <1>1 DEF Status, Running, Rest, Reached
<1>4. q \in Nat /\ p \in Nat /\ q < p /\ p = Len(Given)
  <2>1. /\ Len(Given) \in Nat /\ p \in 0..Len(Given) /\ Nul \notin Char
        /\ \A i \in (p + 1)..Len(Given) : buf[i - 1] = Given[i]
        /\ \A i \in 1..Len(Given) : Given[i] \in Char
    BY <1>2, <1>3, Unread
  <2>2. q \in Nat /\ q < p /\ Written[p] = buf[p]
    <3>1. p \in p..Len(Given)
      BY <2>1
    <3> QED
      BY <1>1, <1>2, <3>1, WrittenType
  <2>3. p < Len(Given) => p + 1 \in (p + 1)..Len(Given) /\ p + 1 - 1 = p /\ p + 1 \in 1..Len(Given)
    BY <2>1
  <2>4. ~(p < Len(Given))
    BY <1>1, <2>1, <2>2, <2>3
  <2> QED
    BY <2>1, <2>2, <2>4
<1>5. ~Preparing
  <2>1. ASSUME Preparing PROVE FALSE
    <3>1. Len(mod) \in Nat /\ Len(Given) > Len(mod) + 4
      BY <1>3, <2>1, PrepareIs
    <3>2. p \in 1..Len(mod)
      BY <1>1, <1>3, <2>1 DEF PassInv, PrepareInv
    <3> QED
      BY <1>4, <3>1, <3>2
  <2> QED
    BY <2>1
<1> DEFINE t == TermAt
           k == q - qLast + 1
           m == q + 1
<1>6. /\ t \in Nat /\ k \in Nat \ {0} /\ t + k = p /\ qLast \in Nat /\ qLast + k = q + 1
      /\ Rest = From(t) /\ Reached = Bytes(Written, 0, qLast)
      /\ From(t) \in Seq(Char) /\ Len(From(t)) = Len(Given) - t
      /\ From(t)[1] # Dot /\ \A i \in 1..k : From(t)[i] # Slash
      /\ \A i \in 1..k : Written[qLast + i - 1] = From(t)[i]
  BY <1>1, <1>5, NameIs
<1>7. m \in Nat /\ m = qLast + k /\ m - qLast = k /\ m - 1 = q
  <2> HIDE DEF t, k
  <2>1. q \in Nat /\ k \in Nat /\ qLast \in Nat /\ qLast + k = q + 1
    BY <1>4, <1>6
  <2> QED
    BY <2>1
<1>8. id' = Bytes(Written, 0, m) /\ last' = Bytes(Written, qLast, m)
  BY <1>1
<1> HIDE DEF t, k, m
<1>9. Len(From(t)) = k /\ k \in 1..Len(From(t))
  BY <1>4, <1>6
<1>10. NameBegins(Rest, Len(Rest))
  BY <1>6, <1>9 DEF NameBegins
<1>11. \A i \in 0..q : Written[i] \in Char
  BY <1>1, <1>2, WrittenType
<1>12. /\ Bytes(Written, 0, m) \in Seq(Char) /\ Len(Bytes(Written, 0, m)) = m
       /\ \A i \in 1..m : Bytes(Written, 0, m)[i] = Written[i - 1]
  BY <1>7, <1>11, WrittenIs
<1>13. /\ Bytes(Written, 0, qLast) \in Seq(Char) /\ Len(Bytes(Written, 0, qLast)) = qLast
       /\ \A i \in 1..qLast : Bytes(Written, 0, qLast)[i] = Written[i - 1]
  <2>1. \A i \in 0..(qLast - 1) : i \in 0..q
    BY <1>4, <1>6
  <2> QED
    BY <1>6, <1>11, <2>1, WrittenIs
<1>14. last' = Rest
  <2>1. Bytes(Written, qLast, m) = [i \in 1..k |-> Written[qLast + i - 1]]
    BY <1>7 DEF Bytes
  <2>2. From(t) = [i \in 1..k |-> From(t)[i]]
    BY <1>6, <1>9
  <2>3. [i \in 1..k |-> Written[qLast + i - 1]] = [i \in 1..k |-> From(t)[i]]
    BY <1>6
  <2> QED
    BY <1>6, <1>8, <2>1, <2>2, <2>3
<1>15. id' = Reached \o Rest
  <2> DEFINE u == Bytes(Written, 0, m)
             d == Bytes(Written, 0, qLast)
             e == From(t)
  <2>1. ASSUME NEW i \in 1..qLast PROVE u[i] = d[i]
    <3>1. i \in 1..m
      BY <1>6, <1>7
    <3> QED
      BY <1>12, <1>13, <3>1
  <2>2. ASSUME NEW i \in 1..k PROVE u[qLast + i] = e[i]
    <3>1. qLast \in Nat /\ k \in Nat /\ m = qLast + k
      BY <1>6, <1>7
    <3>2. PICK j \in 1..m : j = qLast + i
      BY <3>1
    <3>3. u[j] = Written[j - 1]
      BY <1>12
    <3>4. j - 1 = qLast + i - 1
      BY <3>1, <3>2
    <3> QED
      BY <1>6, <3>2, <3>3, <3>4
  <2>3. /\ u \in Seq(Char) /\ d \in Seq(Char) /\ e \in Seq(Char) /\ Len(u) = Len(d) + Len(e)
        /\ \A i \in 1..Len(d) : u[i] = d[i]
        /\ \A i \in 1..Len(e) : u[Len(d) + i] = e[i]
    BY <1>6, <1>7, <1>9, <1>12, <1>13, <2>1, <2>2
  <2> HIDE DEF u, d, e
  <2>4. u = d \o e
    BY <2>3, Joined
  <2> QED
    BY <1>6, <1>8, <2>4 DEF u, d, e
<1>16. Path!Arrive
  BY <1>1, <1>3, <1>10, <1>14, <1>15, PathTerms
     DEF Path!Arrive, Path!Walk, Path!CanArrive, Path!Stop
<1> QED
  BY <1>3, <1>16 DEF PrepareInv, NameInv, Running

(* The length of what a call resolves.                                     *)
LEMMA InputLength ==
  ASSUME NEW m \in Seq(Char), NEW r \in Seq(Char)
  PROVE  Len(Input(m, r)) = Len(r) + (IF IsRelative(m, r) THEN Len(m) + 4 ELSE 0)
<1> DEFINE up == <<Slash, Dot, Dot, Slash>>
<1>1. up \in Seq(Char) /\ Len(up) = 4
  BY DEF Char
<1>2. Input(m, r) = IF IsRelative(m, r) THEN (m \o up) \o r ELSE r
  BY DEF Input
<1> HIDE DEF up
<1>3. m \o up \in Seq(Char) /\ Len(m \o up) = Len(m) + Len(up) /\ Len(m) \in Nat
  BY <1>1, BothAre
<1> DEFINE mu == m \o up
<1>4. Len(mu \o r) = Len(m) + 4 + Len(r) /\ Len(r) \in Nat
  <2>1. mu \in Seq(Char) /\ Len(mu) = Len(m) + 4
    BY <1>1, <1>3
  <2> HIDE DEF mu
  <2>2. Len(mu \o r) = Len(mu) + Len(r) /\ Len(r) \in Nat
    BY <2>1, BothAre
  <2> QED
    BY <2>1, <2>2
<1> QED
  BY <1>2, <1>3, <1>4

LEMMA RequireBegins ==
  ASSUME PassInv, Require
  PROVE  Path!Require /\ PrepareInv' /\ NameInv'
<1> DEFINE s == Input(mod', req')
<1>1. /\ at \in {"idle", "done", "error"} /\ requires < MaxRequires /\ requires' = requires + 1
      /\ req' \in ReqIds /\ mod' \in {<<>>, id} /\ id' = id /\ last' = last
      /\ p' = 0 /\ q' = 0
      /\ \/ Fits(s) /\ buf' = Filled(s) /\ at' = "term"
         \/ ~Fits(s) /\ at' = "error"
  BY DEF Require, outVars
<1>2. req' \in Seq(Char) /\ mod' \in Seq(Char)
  BY <1>1, ModuleIdAssumption, EmptySeq DEF PassInv, IInv, TypeOK
<1>3. s \in Seq(Char) /\ Given' = s /\ Len(s) \in Nat /\ Len(req') \in Nat /\ Len(mod') \in Nat
  BY <1>2, InputType DEF Given
<1>4. Len(s) = Len(req') + (IF IsRelative(mod', req') THEN Len(mod') + 4 ELSE 0)
  BY <1>2, InputLength
<1>5. Path!TooLong(mod', req') <=> ~Fits(s)
  <2>1. Path!TooLong(mod', req') <=> Len(s) >= Limit
    BY <1>4, PathTerms DEF Path!TooLong
  <2> QED
    BY <1>3, <2>1, ModuleIdAssumption DEF Fits
<1>6. Status # "walking"
  BY <1>1 DEF Status, Running
<1>7. NameInv'
  BY <1>1 DEF NameInv
<1>8. CASE ~Fits(s)
  <2>1. ~Running' /\ Status' = "error" /\ Rest' = <<>> /\ Reached' = <<>>
    BY <1>1, <1>8 DEF Running, Status, Rest, Reached
  <2>2. Path!Require
    BY <1>1, <1>5, <1>6, <1>8, <2>1 DEF Path!Require, Path!Stop
  <2> QED
    BY <1>7, <2>1, <2>2 DEF PrepareInv
<1>9. CASE Fits(s)
  <2>1. Running' /\ Status' = "walking" /\ at' = "term" /\ buf' = Filled(s)
    BY <1>1, <1>9 DEF Running, Status
  <2>2. Preparing' <=> IsRelative(mod', req')
    BY <1>1, <1>3 DEF Preparing
  <2>3. Rest' = req'
    <3>1. CASE IsRelative(mod', req')
      BY <2>1, <2>2, <3>1 DEF Rest
    <3>2. CASE ~IsRelative(mod', req')
      <4>1. TermAt' = 0 /\ 0 + 1 = 1
        BY <1>1, <2>1 DEF TermAt
      <4>2. Rest' = SubSeq(s, 0 + 1, Len(s))
        BY <2>1, <2>2, <3>2, <4>1 DEF Rest, RestIn
      <4>3. s = req'
        BY <3>2 DEF Input
      <4> QED
        BY <1>2, <4>1, <4>2, <4>3, WholeIs
    <3> QED
      BY <3>1, <3>2
  <2>4. Reached' = IF IsRelative(mod', req') THEN Dir(mod') ELSE <<>>
    <3>1. CASE IsRelative(mod', req')
      BY <2>1, <2>2, <3>1 DEF Reached
    <3>2. CASE ~IsRelative(mod', req')
      <4>1. Reached' = Bytes(buf', 0, 0)
        BY <1>1, <2>1, <2>2, <3>2 DEF Reached, DirIn
      <4> QED
        BY <3>2, <4>1 DEF Bytes
    <3> QED
      BY <3>1, <3>2
  <2>5. Path!Require
    BY <1>1, <1>5, <1>6, <1>9, <2>1, <2>3, <2>4, PathTerms DEF Path!Require
  <2>6. PrepareInv'
    <3>1. ASSUME NEW i \in 1..Len(s) PROVE buf'[i - 1] = s[i]
      <4>1. i - 1 \in 0..(Limit - 1) /\ i - 1 < Len(s) /\ i - 1 + 1 = i
        BY <1>3, <1>9, ModuleIdAssumption DEF Fits
      <4> QED
        BY <2>1, <4>1 DEF Filled
    <3>2. q' = p' /\ p' \in 0..(Len(mod') + 1) /\ p' = 0
      BY <1>1, <1>3
    <3> HIDE DEF s
    <3> QED
      BY <1>3, <2>1, <3>1, <3>2 DEF PrepareInv
  <2> QED
    BY <1>7, <2>5, <2>6
<1> QED
  BY <1>8, <1>9

-----------------------------------------------------------------------------
(* The walk leads from directory to directory *)

LEMMA UnslashedType ==
  ASSUME NEW S, NEW s \in Seq(S)
  PROVE  Unslashed(s) \in Seq(S)
<1>1. PICK n \in 0..Len(s) : /\ \A i \in 1..n : s[i] = Slash
                             /\ n < Len(s) => s[n + 1] # Slash
  BY SlashesBegin
<1>2. Unslashed(s) = SubSeq(s, n + 1, Len(s))
  BY <1>1, UnslashedIs
<1>3. 0 \in 0..(Len(s) - n)
  OBVIOUS
<1>4. SubSeq(s, n + 1, Len(s)) \in Seq(S)
  BY <1>3, RestOfRest
<1> QED
  BY <1>2, <1>4

LEMMA DirType ==
  ASSUME NEW S, NEW s \in Seq(S)
  PROVE  Dir(s) \in Seq(S) /\ (NamesOnly(s) => IsDir(Dir(s)))
<1>1. PICK n \in 0..Len(s) : /\ n > 0 => s[n] = Slash
                             /\ \A i \in (n + 1)..Len(s) : s[i] # Slash
  BY SlashEnds
<1>2. Dir(s) = SubSeq(s, 1, n)
  BY <1>1, DirIs
<1> DEFINE d == SubSeq(s, 1, n)
<1>3. d \in Seq(S) /\ Len(d) = n /\ \A i \in 1..n : d[i] = s[i]
  BY BeginningIs
<1> HIDE DEF d
<1>4. d # <<>> => d[Len(d)] = Slash
  <2>1. d # <<>> => n > 0 /\ n \in 1..n
    BY <1>3, EmptySeq
  <2> QED
    BY <1>1, <1>3, <2>1
<1>5. ASSUME NamesOnly(s) PROVE NamesOnly(d)
  <2>1. DOMAIN d = 1..n /\ DOMAIN s = 1..Len(s)
    BY <1>3
  <2>2. ASSUME NEW i \in 1..n, i = 1 \/ d[i - 1] = Slash PROVE d[i] \notin {Dot, Slash}
    <3>1. i \in 1..Len(s) /\ (i # 1 => i - 1 \in 1..n)
      BY <1>1
    <3>2. i = 1 \/ s[i - 1] = Slash
      BY <1>3, <2>2, <3>1
    <3>3. s[i] \notin {Dot, Slash}
      BY <1>5, <2>1, <3>1, <3>2 DEF NamesOnly
    <3> QED
      BY <1>3, <3>3
  <2> QED
    BY <2>1, <2>2 DEF NamesOnly
<1> QED
  BY <1>2, <1>3, <1>4, <1>5 DEF IsDir, d

LEMMA NamesOnlyIs ==
  ASSUME NEW S, NEW s \in Seq(S)
  PROVE  NamesOnly(s) <=> \A i \in 1..Len(s) : i = 1 \/ s[i - 1] = Slash => s[i] \notin {Dot, Slash}
<1>1. DOMAIN s = 1..Len(s)
  OBVIOUS
<1> QED
  BY <1>1 DEF NamesOnly

(* A name goes behind a directory.                                         *)
LEMMA NamesJoin ==
  ASSUME NEW S, NEW d \in Seq(S), NEW t \in Seq(S), IsDir(d),
         t # <<>>, t[1] \notin {Dot, Slash}, \A i \in 1..(Len(t) - 1) : t[i] # Slash
  PROVE  NamesOnly(d \o t) /\ d \o t # <<>> /\ (d \o t)[Len(d \o t)] = t[Len(t)]
<1> DEFINE u == d \o t
<1>1. /\ u \in Seq(S) /\ Len(u) = Len(d) + Len(t) /\ Len(d) \in Nat /\ Len(t) \in Nat
      /\ \A i \in 1..Len(d) : u[i] = d[i]
      /\ \A i \in 1..Len(t) : u[Len(d) + i] = t[i]
  BY BothAre
<1> HIDE DEF u
<1>2. Len(t) \in 1..Len(t)
  BY <1>1, EmptySeq
<1>3. u # <<>> /\ u[Len(u)] = t[Len(t)]
  BY <1>1, <1>2, EmptySeq
<1>4. NamesOnly(d)
  BY DEF IsDir
<1>5. ASSUME NEW i \in 1..Len(u), i = 1 \/ u[i - 1] = Slash PROVE u[i] \notin {Dot, Slash}
  <2>1. CASE i <= Len(d)
    <3>1. i \in 1..Len(d) /\ (i # 1 => i - 1 \in 1..Len(d))
      BY <1>1, <2>1
    <3>2. u[i] = d[i] /\ (i = 1 \/ d[i - 1] = Slash)
      BY <1>1, <1>5, <3>1
    <3> QED
      BY <1>4, <3>1, <3>2, NamesOnlyIs
  <2>2. CASE ~(i <= Len(d))
    <3>1. PICK j \in 1..Len(t) : i = Len(d) + j
      <4>1. i - Len(d) \in 1..Len(t) /\ i = Len(d) + (i - Len(d))
        BY <1>1, <2>2
      <4> QED
        BY <4>1
    <3>2. u[i] = t[j]
      BY <1>1, <3>1
    <3>3. j = 1
      <4>1. ASSUME j # 1 PROVE FALSE
        <5>1. /\ j - 1 \in 1..(Len(t) - 1) /\ j - 1 \in 1..Len(t)
              /\ i - 1 = Len(d) + (j - 1) /\ i # 1
          BY <1>1, <3>1, <4>1
        <5>2. u[Len(d) + (j - 1)] = t[j - 1] /\ t[j - 1] # Slash
          BY <1>1, <5>1
        <5> QED
          BY <1>5, <5>1, <5>2
      <4> QED
        BY <4>1
    <3> QED
      BY <3>2, <3>3
  <2> QED
    BY <2>1, <2>2
<1>6. NamesOnly(u)
  BY <1>1, <1>5, NamesOnlyIs
<1> QED
  BY <1>3, <1>6 DEF u

(* What is behind a directory in a canonical id.                           *)
LEMMA CanonicalTail ==
  ASSUME NEW S, NEW d \in Seq(S), NEW r \in Seq(S), IsDir(d), Canonical(d \o r)
  PROVE  /\ r # <<>> /\ r[1] \notin {Dot, Slash} /\ r[Len(r)] # Slash
         /\ \A i \in 2..Len(r) : r[i - 1] = Slash => r[i] \notin {Dot, Slash}
<1> DEFINE u == d \o r
<1>1. /\ u \in Seq(S) /\ Len(u) = Len(d) + Len(r) /\ Len(d) \in Nat /\ Len(r) \in Nat
      /\ \A i \in 1..Len(d) : u[i] = d[i]
      /\ \A i \in 1..Len(r) : u[Len(d) + i] = r[i]
  BY BothAre
<1>2. Canonical(u)
  OBVIOUS
<1> HIDE DEF u
<1>3. /\ u # <<>> /\ u[Len(u)] # Slash
      /\ \A i \in 1..Len(u) : i = 1 \/ u[i - 1] = Slash => u[i] \notin {Dot, Slash}
  BY <1>1, <1>2, NamesOnlyIs DEF Canonical
<1>4. r # <<>>
  <2>1. ASSUME r = <<>> PROVE FALSE
    <3>1. Len(d) = Len(u) /\ Len(d) \in 1..Len(d) /\ d # <<>>
      BY <1>1, <1>3, <2>1, EmptySeq
    <3> QED
      BY <1>1, <1>3, <3>1 DEF IsDir
  <2> QED
    BY <2>1
<1>5. Len(r) \in 1..Len(r) /\ 1 \in 1..Len(r)
  BY <1>1, <1>4, EmptySeq
<1>6. r[Len(r)] # Slash
  BY <1>1, <1>3, <1>5
<1>7. r[1] \notin {Dot, Slash}
  <2>1. u[Len(d) + 1] = r[1] /\ Len(d) + 1 \in 1..Len(u) /\ Len(d) + 1 - 1 = Len(d)
    <3>1. Len(d) + 1 \in 1..Len(u) /\ Len(d) + 1 - 1 = Len(d)
      <4>1. Len(d) \in Nat /\ Len(r) \in Nat /\ Len(r) >= 1 /\ Len(u) = Len(d) + Len(r)
        BY <1>1, <1>5
      <4> QED
        BY <4>1
    <3>2. u[Len(d) + 1] = r[1]
      BY <1>1, <1>5
    <3> QED
      BY <3>1, <3>2
  <2>2. Len(d) + 1 = 1 \/ u[Len(d) + 1 - 1] = Slash
    <3>1. Len(d) # 0 => Len(d) \in 1..Len(d) /\ d # <<>>
      BY <1>1, EmptySeq
    <3> QED
      BY <1>1, <2>1, <3>1 DEF IsDir
  <2> QED
    BY <1>3, <2>1, <2>2
<1>8. ASSUME NEW i \in 2..Len(r), r[i - 1] = Slash PROVE r[i] \notin {Dot, Slash}
  <2>1. i \in 1..Len(r) /\ i - 1 \in 1..Len(r) /\ Len(d) + i \in 1..Len(u) /\ Len(d) + i - 1 = Len(d) + (i - 1)
    BY <1>1
  <2>2. u[Len(d) + i] = r[i] /\ u[Len(d) + (i - 1)] = r[i - 1]
    BY <1>1, <2>1
  <2> QED
    BY <1>3, <1>8, <2>1, <2>2
<1> QED
  BY <1>4, <1>6, <1>7, <1>8

(* Behind a name in a canonical id there is one slash, and a name.         *)
LEMMA BehindName ==
  ASSUME NEW r \in Seq(Char), NEW n \in 1..Len(r), n < Len(r), r[n + 1] = Slash,
         r[Len(r)] # Slash, \A i \in 2..Len(r) : r[i - 1] = Slash => r[i] \notin {Dot, Slash}
  PROVE  /\ Behind(r, n) \in Seq(Char)
         /\ r = SubSeq(r, 1, n + 1) \o Behind(r, n)
<1> DEFINE s == SubSeq(r, n + 1, Len(r))
<1>1. Len(r) \in Nat /\ n + 1 # Len(r) /\ n + 1 < Len(r)
  OBVIOUS
<1>2. /\ s \in Seq(Char) /\ Len(s) = Len(r) - n
      /\ \A i \in 1..(Len(r) - n) : s[i] = r[n + i]
      /\ SubSeq(s, 1 + 1, Len(r) - n) = SubSeq(r, n + 1 + 1, Len(r))
  <2>1. n \in 0..Len(r) /\ 1 \in 0..(Len(r) - n)
    BY <1>1
  <2> QED
    BY <2>1, RestOfRest
<1> DEFINE e == SubSeq(r, n + 1 + 1, Len(r))
<1>3. /\ e \in Seq(Char) /\ Len(e) = Len(r) - (n + 1)
      /\ \A i \in 1..(Len(r) - (n + 1)) : e[i] = r[n + 1 + i]
  <2>1. n + 1 \in 0..Len(r) /\ 0 \in 0..(Len(r) - (n + 1))
    BY <1>1
  <2> QED
    BY <2>1, RestOfRest
<1> DEFINE d == SubSeq(r, 1, n + 1)
<1>4. /\ d \in Seq(Char) /\ Len(d) = n + 1
      /\ \A i \in 1..(n + 1) : d[i] = r[i]
  <2>1. n + 1 \in 0..Len(r)
    BY <1>1
  <2> QED
    BY <2>1, BeginningIs
<1>5. Behind(r, n) = Unslashed(s)
  BY DEF Behind
<1>6. SubSeq(s, 2, Len(s)) = e
  <2>1. 1 + 1 = 2
    OBVIOUS
  <2> QED
    BY <1>2, <2>1
<1> HIDE DEF s, e, d
<1>7. Unslashed(s) = Unslashed(e)
  <2>1. 1 \in 1..(Len(r) - n) /\ Len(s) # 0
    BY <1>1, <1>2
  <2>2. s # <<>> /\ s[1] = Slash
    BY <1>2, <2>1, EmptySeq
  <2> QED
    BY <1>2, <1>6, <2>2, UnslashedNext
<1>8. Unslashed(e) = e
  <2>1. 1 \in 1..(Len(r) - (n + 1)) /\ n + 1 + 1 \in 2..Len(r) /\ n + 1 + 1 - 1 = n + 1
    BY <1>1
  <2>2. e[1] = r[n + 1 + 1]
    BY <1>3, <2>1
  <2>3. r[n + 1 + 1 - 1] = Slash
    BY <2>1
  <2>4. r[n + 1 + 1] # Slash
    <3>1. PICK i \in 2..Len(r) : i = n + 1 + 1
      BY <2>1
    <3>2. i - 1 = n + 1
      BY <3>1
    <3> QED
      BY <3>1, <3>2
  <2> QED
    BY <1>3, <2>2, <2>4, UnslashedSame
<1>9. r = d \o e
  <2>1. Len(r) = Len(d) + Len(e)
    BY <1>1, <1>3, <1>4
  <2>2. \A i \in 1..Len(d) : r[i] = d[i]
    BY <1>4
  <2>3. \A i \in 1..Len(e) : r[Len(d) + i] = e[i]
    BY <1>3, <1>4
  <2> QED
    BY <1>3, <1>4, <2>1, <2>2, <2>3, Joined
<1> QED
  BY <1>3, <1>5, <1>7, <1>8, <1>9 DEF d

(* A name begins what begins with none of the two marks, to its first      *)
(* slash or to its end.                                                    *)
LEMMA SomeName ==
  ASSUME NEW r \in Seq(Char), r # <<>>, r[1] \notin {Dot, Slash}
  PROVE  \/ NameBegins(r, Len(r))
         \/ \E n \in 1..Len(r) : NameBegins(r, n) /\ n < Len(r) /\ r[n + 1] = Slash
<1> DEFINE T == {i \in 1..Len(r) : r[i] = Slash}
<1>1. Len(r) \in Nat /\ Len(r) \in 1..Len(r)
  BY EmptySeq
<1>2. CASE T = {}
  <2>1. \A i \in 1..Len(r) : r[i] # Slash
    BY <1>2
  <2> QED
    BY <1>1, <2>1 DEF NameBegins
<1>3. CASE T # {}
  <2>1. T \subseteq Nat
    OBVIOUS
  <2>2. PICK m \in T : \A k \in T : m <= k
    BY <1>3, <2>1, Least
  <2>3. m \in 1..Len(r) /\ r[m] = Slash
    OBVIOUS
  <2>4. m # 1
    BY <2>3
  <2>5. m - 1 \in 1..Len(r) /\ m - 1 < Len(r) /\ m - 1 + 1 = m
    BY <1>1, <2>3, <2>4
  <2>6. ASSUME NEW i \in 1..(m - 1) PROVE r[i] # Slash
    <3>1. i \in 1..Len(r) /\ ~(m <= i)
      BY <1>1, <2>3
    <3> QED
      BY <2>2, <3>1
  <2>7. NameBegins(r, m - 1)
    BY <2>5, <2>6 DEF NameBegins
  <2> QED
    BY <2>3, <2>5, <2>7
<1> QED
  BY <1>2, <1>3

LEMMA WalkTypes ==
  ASSUME PassInv
  PROVE  Rest \in Seq(Char) /\ Reached \in Seq(Char)
<1>1. IInv /\ req \in Seq(Char) /\ mod \in Seq(Char)
  BY DEF PassInv, IInv, TypeOK
<1>2. CASE ~Running
  BY <1>2, EmptySeq DEF Rest, Reached
<1>3. CASE Running /\ Preparing
  <2>1. Rest = req /\ Reached = Dir(mod)
    BY <1>3 DEF Rest, Reached
  <2> QED
    BY <1>1, <2>1, DirType
<1>4. CASE Running /\ ~Preparing
  <2>1. Given \in Seq(Char) /\ Len(Given) \in Nat /\ p \in 0..Len(Given) /\ q \in Nat
    BY <1>1, <1>4, Unread DEF IInv, TypeOK
  <2>2. TermAt \in 0..Len(Given)
    <3>1. CASE at = "name"
      <4> DEFINE t == TermAt
                 k == q - qLast + 1
      <4>1. t \in Nat /\ k \in Nat \ {0} /\ t + k = p
        BY <1>4, <3>1, NameIs
      <4> HIDE DEF t, k
      <4>2. t \in 0..Len(Given)
        BY <2>1, <4>1
      <4> QED
        BY <4>2 DEF t
    <3>2. CASE at # "name"
      BY <2>1, <3>2 DEF TermAt
    <3> QED
      BY <3>1, <3>2
  <2>3. From(TermAt) \in Seq(Char)
    BY <2>1, <2>2, FromIs
  <2>4. Rest = From(TermAt) \/ Rest = Unslashed(From(TermAt))
    BY <1>4 DEF Rest, RestIn, From, Given
  <2>5. Rest \in Seq(Char)
    BY <2>3, <2>4, UnslashedType
  <2>6. \A i \in 0..(q - 1) : buf[i] \in Char
    BY <1>1, <1>4 DEF IInv, OutputIsBytes
  <2>7. \A n \in 0..q : Bytes(buf, 0, n) \in Seq(Char)
    <3>1. ASSUME NEW n \in 0..q PROVE Bytes(buf, 0, n) \in Seq(Char)
      <4>1. n \in Nat /\ \A i \in 0..(n - 1) : i \in 0..(q - 1)
        BY <2>1
      <4>2. \A i \in 0..(n - 1) : buf[i] \in Char
        BY <2>6, <4>1
      <4> QED
        BY <4>1, <4>2, WrittenIs
    <3> QED
      BY <3>1
  <2>8. q \in 0..q /\ (at = "name" => qLast \in 0..q)
    BY <1>1, <2>1 DEF IInv, TypeOK, TermEnds
  <2>9. Reached = DirIn
    BY <1>4 DEF Reached
  <2>10. DirIn = Dir(Bytes(buf, 0, q)) \/ DirIn = Bytes(buf, 0, q) \/ (at = "name" /\ DirIn = Bytes(buf, 0, qLast))
    BY DEF DirIn
  <2>11. Bytes(buf, 0, q) \in Seq(Char) /\ (at = "name" => Bytes(buf, 0, qLast) \in Seq(Char))
    BY <2>7, <2>8
  <2>12. Dir(Bytes(buf, 0, q)) \in Seq(Char)
    BY <2>11, DirType
  <2> QED
    BY <2>5, <2>9, <2>10, <2>11, <2>12
<1> QED
  BY <1>2, <1>3, <1>4

(* A step of the walk leads to a directory, and the last to an absolute    *)
(* id; what is left of an absolute id lies behind the directory reached.   *)
LEMMA WalkOn ==
  ASSUME PassInv, TypeOK', [Path!Next]_(Path!vars)
  PROVE  WalkInv'
<1>1. /\ Running <=> Status = "walking"
      /\ Running' <=> Status' = "walking"
      /\ at = "done" <=> Status = "done"
      /\ at' = "done" <=> Status' = "done"
      /\ at = "error" <=> Status = "error"
      /\ at' = "error" <=> Status' = "error"
  BY DEF PassInv, IInv, TypeOK, Running, Status
<1>2. /\ id # <<>> => Canonical(id)
      /\ mod # <<>> => Canonical(mod)
      /\ IsDir(Reached)
      /\ Canonical(req) => /\ Status = "walking" => Reached \o Rest = req
                           /\ Status = "done" => id = req
                           /\ Status = "error" => ~Fits(req)
  BY <1>1 DEF PassInv, WalkInv
<1>3. Rest \in Seq(Char) /\ Reached \in Seq(Char)
  BY WalkTypes
<1>4. /\ req \in Seq(Char) /\ mod \in Seq(Char) /\ id \in Seq(Char)
      /\ req' \in Seq(Char) /\ mod' \in Seq(Char) /\ id' \in Seq(Char)
  BY DEF PassInv, IInv, TypeOK
<1> SUFFICES /\ id' # <<>> => Canonical(id')
             /\ mod' # <<>> => Canonical(mod')
             /\ IsDir(Reached')
             /\ Canonical(req') => /\ Status' = "walking" => Reached' \o Rest' = req'
                                   /\ Status' = "done" => id' = req'
                                   /\ Status' = "error" => ~Fits(req')
  <2>1. Fits(req)' <=> Fits(req')
    BY DEF Fits
  <2> QED
    BY <1>1, <2>1 DEF WalkInv
<1>5. IsDir(<<>>)
  BY EmptySeq DEF IsDir, NamesOnly
<1>6. Status = "walking" /\ Canonical(req) =>
        /\ Rest # <<>> /\ Rest[1] \notin {Dot, Slash} /\ Rest[Len(Rest)] # Slash
        /\ \A i \in 2..Len(Rest) : Rest[i - 1] = Slash => Rest[i] \notin {Dot, Slash}
  BY <1>2, <1>3, CanonicalTail
<1>7. CASE UNCHANGED Path!vars
  BY <1>2, <1>7 DEF Path!vars
<1>8. CASE Path!Require
  <2>1. req' \in ReqIds /\ mod' \in {<<>>, id} /\ id' = id
    BY <1>8 DEF Path!Require
  <2>2. mod' # <<>> => Canonical(mod')
    BY <1>2, <2>1
  <2>3. \/ Path!TooLong(mod', req') /\ Status' = "error" /\ Reached' = <<>>
        \/ /\ Status' = "walking" /\ Rest' = req'
           /\ Reached' = IF IsRelative(mod', req') THEN Dir(mod') ELSE <<>>
    BY <1>8, PathTerms DEF Path!Require, Path!Stop
  <2>4. IsDir(Reached')
    <3>1. mod' # <<>> => IsDir(Dir(mod'))
      BY <1>4, <2>2, DirType DEF Canonical
    <3> QED
      BY <1>5, <2>3, <3>1 DEF IsRelative
  <2>5. ASSUME Canonical(req')
        PROVE  /\ Status' = "walking" => Reached' \o Rest' = req'
               /\ Status' = "error" => ~Fits(req')
    <3>1. ~IsRelative(mod', req')
      <4>1. req' # <<>> /\ 1 \in 1..Len(req')
        BY <1>4, <2>5, EmptySeq DEF Canonical
      <4>2. req'[1] # Dot
        BY <1>4, <2>5, <4>1, NamesOnlyIs DEF Canonical
      <4> QED
        BY <4>2 DEF IsRelative
    <3>2. Status' = "walking" => Reached' \o Rest' = req'
      <4>1. <<>> \o req' = req'
        BY <1>4, ConcatEmptySeq
      <4> QED
        BY <2>3, <3>1, <4>1
    <3>3. Status' = "error" => ~Fits(req')
      <4>1. Path!TooLong(mod', req') => Len(req') + 0 >= Limit
        BY <3>1, PathTerms DEF Path!TooLong
      <4>2. Len(req') \in Nat
        BY <1>4
      <4> QED
        BY <2>3, <4>1, <4>2, ModuleIdAssumption DEF Fits
    <3> QED
      BY <3>2, <3>3
  <2>6. Status' # "done"
    BY <2>3
  <2> QED
    BY <1>2, <2>1, <2>2, <2>4, <2>5, <2>6
<1>9. CASE Path!Stay
  <2>1. /\ Status = "walking" /\ Status' = "walking" /\ UNCHANGED <<req, mod, id, Reached>>
        /\ TermBegins(Rest, <<Dot>>)
    BY <1>9, PathTerms DEF Path!Stay, Path!Walk, Path!CanStay, Path!Dot, Dot
  <2>2. Rest[1] = Dot
    BY <1>3, <2>1, DotBegins
  <2> QED
    BY <1>2, <1>6, <2>1, <2>2
<1>10. CASE Path!GoUp
  <2>1. /\ Status = "walking" /\ Status' = "walking" /\ UNCHANGED <<req, mod, id>>
        /\ TermBegins(Rest, <<Dot, Dot>>) /\ Reached # <<>> /\ Reached' = Parent(Reached)
    BY <1>10, PathTerms DEF Path!GoUp, Path!Walk, Path!CanGoUp, Path!Dot, Dot
  <2>2. Rest[1] = Dot
    BY <1>3, <2>1, DotDotBegins
  <2>3. IsDir(Parent(Reached))
    <3> DEFINE n == Len(Reached) - 1
               d == SubSeq(Reached, 1, n)
    <3>1. n \in 0..Len(Reached) /\ n + 1 = Len(Reached)
      BY <1>3, <2>1, EmptySeq
    <3>2. d \in Seq(Char) /\ Len(d) = n /\ \A i \in 1..n : d[i] = Reached[i]
      BY <1>3, <3>1, BeginningIs
    <3>3. \A i \in 1..n : i \in 1..Len(Reached) /\ (i # 1 => i - 1 \in 1..n)
      BY <3>1
    <3>4. Parent(Reached) = Dir(d)
      BY DEF Parent
    <3> HIDE DEF n, d
    <3>5. \A i \in 1..Len(Reached) : i = 1 \/ Reached[i - 1] = Slash => Reached[i] \notin {Dot, Slash}
      BY <1>2, <1>3, NamesOnlyIs DEF IsDir
    <3>6. \A i \in 1..n : i = 1 \/ d[i - 1] = Slash => d[i] \notin {Dot, Slash}
      BY <3>2, <3>3, <3>5
    <3>7. NamesOnly(d)
      BY <3>2, <3>6, NamesOnlyIs
    <3> QED
      BY <3>2, <3>4, <3>7, DirType
  <2> QED
    BY <1>2, <1>6, <2>1, <2>2, <2>3
<1>11. CASE \E n \in 1..Len(Rest) : Path!Enter(n)
  <2>1. PICK n \in 1..Len(Rest) : Path!Enter(n)
    BY <1>11
  <2>2. /\ Status = "walking" /\ Status' = "walking" /\ UNCHANGED <<req, mod, id>>
        /\ NameBegins(Rest, n) /\ n < Len(Rest) /\ Rest[n + 1] = Slash
        /\ Rest' = Behind(Rest, n) /\ Reached' = Reached \o SubSeq(Rest, 1, n + 1)
    BY <2>1, PathTerms DEF Path!Enter, Path!Walk, Path!CanEnter, Path!Slash, Slash
  <2> DEFINE t == SubSeq(Rest, 1, n + 1)
  <2>3. t \in Seq(Char) /\ Len(t) = n + 1 /\ \A i \in 1..(n + 1) : t[i] = Rest[i]
    <3>1. n + 1 \in 0..Len(Rest)
      BY <1>3, <2>2
    <3> QED
      BY <1>3, <3>1, BeginningIs
  <2> HIDE DEF t
  <2>4. /\ t # <<>> /\ t[1] \notin {Dot, Slash} /\ t[Len(t)] = Slash
        /\ \A i \in 1..(Len(t) - 1) : t[i] # Slash
    <3>1. /\ 1 \in 1..(n + 1) /\ 1 \in 1..n /\ n + 1 \in 1..(n + 1) /\ n + 1 # 0 /\ n + 1 - 1 = n
          /\ \A i \in 1..n : i \in 1..(n + 1)
      OBVIOUS
    <3>2. Rest[1] # Dot /\ \A i \in 1..n : Rest[i] # Slash
      BY <2>2 DEF NameBegins
    <3>3. t # <<>> /\ t[1] = Rest[1] /\ t[n + 1] = Slash
      BY <2>2, <2>3, <3>1, EmptySeq
    <3>4. \A i \in 1..n : t[i] # Slash
      BY <2>3, <3>1, <3>2
    <3>5. Len(t) = n + 1 /\ Len(t) - 1 = n
      BY <2>3, <3>1
    <3>6. Rest[1] # Slash
      BY <3>1, <3>2
    <3> QED
      BY <3>2, <3>3, <3>4, <3>5, <3>6
  <2>5. NamesOnly(Reached \o t) /\ (Reached \o t)[Len(Reached \o t)] = Slash
    BY <1>2, <1>3, <2>3, <2>4, NamesJoin
  <2>6. IsDir(Reached')
    BY <2>2, <2>5 DEF IsDir, t
  <2>7. ASSUME Canonical(req) PROVE Reached' \o Rest' = req
    <3>1. Behind(Rest, n) \in Seq(Char) /\ Rest = t \o Behind(Rest, n)
      BY <1>3, <1>6, <2>2, <2>7, BehindName DEF t
    <3>2. (Reached \o t) \o Behind(Rest, n) = Reached \o (t \o Behind(Rest, n))
      <4> DEFINE d == Reached
                 e == Behind(Rest, n)
      <4>1. d \in Seq(Char) /\ t \in Seq(Char) /\ e \in Seq(Char)
        BY <1>3, <2>3, <3>1
      <4> HIDE DEF d, e
      <4>2. (d \o t) \o e = d \o (t \o e)
        BY <4>1, ConcatAssociative
      <4> QED
        BY <4>2 DEF d, e
    <3> QED
      BY <1>2, <2>2, <2>7, <3>1, <3>2 DEF t
  <2> QED
    BY <1>2, <2>2, <2>6, <2>7
<1>12. CASE Path!Arrive
  <2>1. /\ Status = "walking" /\ Status' = "done" /\ UNCHANGED <<req, mod>>
        /\ NameBegins(Rest, Len(Rest)) /\ id' = Reached \o Rest /\ Reached' = <<>>
    BY <1>12, PathTerms DEF Path!Arrive, Path!Walk, Path!CanArrive, Path!Stop
  <2>2. Len(Rest) \in 1..Len(Rest) /\ 1 \in 1..Len(Rest) /\ Rest # <<>>
    BY <1>3, <2>1, EmptySeq DEF NameBegins
  <2>3. Rest[1] \notin {Dot, Slash} /\ Rest[Len(Rest)] # Slash /\ \A i \in 1..(Len(Rest) - 1) : Rest[i] # Slash
    <3>1. \A i \in 1..(Len(Rest) - 1) : i \in 1..Len(Rest)
      BY <1>3
    <3> QED
      BY <2>1, <2>2, <3>1 DEF NameBegins
  <2>4. Canonical(id')
    BY <1>2, <1>3, <2>1, <2>2, <2>3, NamesJoin DEF Canonical
  <2> QED
    BY <1>2, <1>5, <2>1, <2>4
<1>13. CASE Path!Fail
  <2>1. /\ Status = "walking" /\ Status' = "error" /\ UNCHANGED <<req, mod, id>> /\ Reached' = <<>>
        /\ ~NameBegins(Rest, Len(Rest))
        /\ \A n \in 1..Len(Rest) : ~(NameBegins(Rest, n) /\ n < Len(Rest) /\ Rest[n + 1] = Slash)
    BY <1>13, PathTerms
       DEF Path!Fail, Path!Walk, Path!CanArrive, Path!CanEnter, Path!Stop, Path!Slash, Slash
  <2>2. ~Canonical(req)
    BY <1>3, <1>6, <2>1, SomeName
  <2> QED
    BY <1>2, <1>5, <2>1, <2>2
<1> QED
  BY <1>7, <1>8, <1>9, <1>10, <1>11, <1>12, <1>13 DEF Path!Next

-----------------------------------------------------------------------------
(* Before the first call nothing is walked.                                *)
LEMMA InitPath == Init => Path!Init /\ PassInv
<1> SUFFICES ASSUME Init PROVE Path!Init /\ PassInv
  OBVIOUS
<1>1. ~Running /\ at = "idle" /\ Rest = <<>> /\ Reached = <<>> /\ Status = "idle"
  BY DEF Init, Running, Rest, Reached, Status
<1>2. Path!Init
  BY <1>1 DEF Init, Path!Init
<1>3. PrepareInv /\ NameInv
  BY <1>1 DEF PrepareInv, NameInv
<1>4. ~Canonical(<<>>) /\ IsDir(<<>>)
  BY EmptySeq DEF Canonical, IsDir, NamesOnly
<1>5. WalkInv
  BY <1>1, <1>4 DEF Init, WalkInv
<1> QED
  BY <1>2, <1>3, <1>5, InitIInv DEF PassInv

(* Every step of the code is one of the walk or does not show there.       *)
LEMMA NextWalks == PassInv /\ [Next]_vars => PassInv' /\ [Path!Next]_(Path!vars)
<1> SUFFICES ASSUME PassInv, [Next]_vars PROVE PassInv' /\ [Path!Next]_(Path!vars)
  OBVIOUS
<1>1. IInv'
  BY NextIInv DEF PassInv
<1>2. [Path!Next]_(Path!vars) /\ PrepareInv' /\ NameInv'
  <2>1. CASE UNCHANGED vars
    <3>1. /\ UNCHANGED <<Running, Preparing, TermAt, RestIn, DirIn>>
      BY <2>1 DEF vars, argVars, outVars, Running, Preparing, TermAt, RestIn, DirIn
    <3>2. UNCHANGED Path!vars
      BY <2>1, <3>1 DEF vars, argVars, outVars, Path!vars, Rest, Reached, Status
    <3>3. PrepareInv' /\ NameInv'
      BY <2>1, <3>1 DEF PassInv, PrepareInv, NameInv, Given, vars, argVars, outVars
    <3> QED
      BY <3>2, <3>3
  <2>2. CASE Require
    BY <2>2, RequireBegins DEF Path!Next
  <2>3. CASE EatDot
    BY <2>3, EatDotStays DEF Path!Next
  <2>4. CASE DotDot
    BY <2>4, DotDotGoesUp, KeptStutters DEF Path!Next
  <2>5. CASE BeginName
    BY <2>5, BeginNameKeeps, KeptStutters
  <2>6. CASE Reject
    BY <2>6, RejectFails DEF Path!Next
  <2>7. CASE Backward
    BY <2>7, BackwardKeeps, KeptStutters
  <2>8. CASE CopyLetter
    BY <2>8, CopyLetterKeeps, KeptStutters
  <2>9. CASE CopySlash
    BY <2>9, CopySlashEnters, KeptStutters DEF Path!Next
  <2>10. CASE CopyLast
    BY <2>10, CopyLastArrives DEF Path!Next
  <2>11. CASE EatSlash
    BY <2>11, EatSlashKeeps, KeptStutters
  <2> QED
    BY <2>1, <2>2, <2>3, <2>4, <2>5, <2>6, <2>7, <2>8, <2>9, <2>10, <2>11
       DEF Next, Step, Finished
<1>3. WalkInv'
  BY <1>1, <1>2, WalkOn DEF IInv
<1> QED
  BY <1>1, <1>2, <1>3 DEF PassInv

LEMMA AlwaysPassInv == Spec => []PassInv
<1> QED
  BY InitPath, NextWalks, PTL DEF Spec

(* Resolution in place, byte by byte, is the walk over the directories:    *)
(* every id leads where its terms say, and fails only where they do.       *)
THEOREM FollowsPath == Spec => ImplementsPath
<1>1. Init => Path!Init
  BY InitPath
<1>2. PassInv /\ [Next]_vars => [Path!Next]_(Path!vars)
  BY NextWalks
<1> QED
  BY <1>1, <1>2, AlwaysPassInv, PTL DEF Spec, ImplementsPath, Path!Spec

(* The ids under which modules are cached have one form: names with one    *)
(* slash between them; and resolution leaves such an id as it is.          *)
THEOREM IdsAreCanonical == Spec => []CanonicalIds
<1>1. PassInv => CanonicalIds
  BY DEF PassInv, WalkInv, CanonicalIds
<1> QED
  BY <1>1, AlwaysPassInv, PTL
=============================================================================
