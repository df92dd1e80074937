---------------------------- MODULE SessionDigest ----------------------------
(***************************************************************************)
(* chunkDigest of the session hook: the texts of one role become parts of  *)
(* limited size.  A text is its length; a piece of it is [text, from, to], *)
(* positions in its bullet "- text".                                       *)
(***************************************************************************)
EXTENDS Integers, Sequences, SequencesExt

CONSTANTS
  RoleBudget,    \* PER_ROLE_CHAR_BUDGET
  HeadReserve,   \* the 200 characters a shortened digest leaves free
  ChunkLimit,    \* CHUNK_CHAR_LIMIT
  TitleReserve,  \* the 120 characters a part leaves for its title
  MaxTexts,      \* bound on the texts of a role
  MaxLength      \* bound on the length of a text

ASSUME DigestAssumption ==
  /\ TitleReserve < ChunkLimit /\ HeadReserve < RoleBudget
  /\ {RoleBudget, HeadReserve, ChunkLimit, TitleReserve, MaxTexts, MaxLength} \subseteq Nat

Bullet(text) == text + 2

\* What the texts from i to the end take up.
SizeFrom(texts) ==
  LET size[i \in 1..(Len(texts) + 1)] ==
        IF i > Len(texts) THEN 0 ELSE Bullet(texts[i]) + size[i + 1]
  IN size

\* The first text that is kept: all of them within the budget, else those of
\* the longest end that fits, and the last one in any case.
First(texts) ==
  LET fits == {i \in 1..Len(texts) : SizeFrom(texts)[i] <= RoleBudget - HeadReserve} IN
  IF SizeFrom(texts)[1] <= RoleBudget THEN 1
  ELSE CHOOSE i \in fits \cup {Len(texts)} : \A j \in fits \cup {Len(texts)} : i <= j

Omitted(texts) == First(texts) - 1

\* A bullet that is longer than a part is cut hard.
Slices(texts, i) ==
  LET length == Bullet(texts[i])
      count  == (length + ChunkLimit - 1) \div ChunkLimit
  IN [k \in 1..count |->
       <<[text |-> i, from |-> (k - 1) * ChunkLimit + 1,
          to |-> IF k = count THEN length ELSE k * ChunkLimit]>>]

Whole(texts, i) == [text |-> i, from |-> 1, to |-> Bullet(texts[i])]

\* A finished part, if it holds anything.
Flushed(parts, current) == IF current = << >> THEN parts ELSE Append(parts, current)

\* Mutant of Packed: a long bullet does not close the part before it.
PackedLoose(texts, i, before) ==
  IF Bullet(texts[i]) > ChunkLimit
    THEN [before EXCEPT !.parts = before.parts \o Slices(texts, i)]
  ELSE IF before.used + Bullet(texts[i]) + 1 > ChunkLimit - TitleReserve
    THEN [parts   |-> Flushed(before.parts, before.current),
          current |-> <<Whole(texts, i)>>, used |-> Bullet(texts[i]) + 1]
  ELSE [before EXCEPT !.current = Append(before.current, Whole(texts, i)),
                      !.used = before.used + Bullet(texts[i]) + 1]

\* One round of the loop over the bullets.
Packed(texts, i, before) ==
  IF Bullet(texts[i]) > ChunkLimit
    THEN [parts   |-> Flushed(before.parts, before.current) \o Slices(texts, i),
          current |-> << >>, used |-> 0]
  ELSE IF before.used + Bullet(texts[i]) + 1 > ChunkLimit - TitleReserve
    THEN [parts   |-> Flushed(before.parts, before.current),
          current |-> <<Whole(texts, i)>>, used |-> Bullet(texts[i]) + 1]
  ELSE [before EXCEPT !.current = Append(before.current, Whole(texts, i)),
                      !.used = before.used + Bullet(texts[i]) + 1]

\* The parts of a digest, without their titles.
ChunkDigest(texts) ==
  LET after[i \in (First(texts) - 1)..Len(texts)] ==
        IF i < First(texts) THEN [parts |-> << >>, current |-> << >>, used |-> 0]
        ELSE Packed(texts, i, after[i - 1])
  IN Flushed(after[Len(texts)].parts, after[Len(texts)].current)

-----------------------------------------------------------------------------
\* The characters of the kept bullets, in order.
Kept(texts) ==
  FlattenSeq([k \in 1..(Len(texts) - Omitted(texts)) |->
    [c \in 1..Bullet(texts[Omitted(texts) + k]) |-> <<Omitted(texts) + k, c>>]])

Characters(part) ==
  FlattenSeq([k \in DOMAIN part |->
    [c \in 1..(part[k].to - part[k].from + 1) |-> <<part[k].text, part[k].from + c - 1>>]])

\* Nothing of a session is lost or repeated on the way into its parts: they
\* hold the kept texts character by character and in order, what is omitted
\* is at the beginning and no more than it must be, and no part is longer
\* than the limit before its title is added - so with a title of at most 200
\* characters it is within what the extraction reads of one evidence.
DigestIsComplete ==
  \A n \in 1..MaxTexts : \A texts \in [1..n -> 1..MaxLength] :
    LET parts == ChunkDigest(texts)
        k     == Omitted(texts)
    IN
    /\ FlattenSeq([p \in DOMAIN parts |-> Characters(parts[p])]) = Kept(texts)
    /\ \A p \in DOMAIN parts : Len(Characters(parts[p])) + Len(parts[p]) - 1 <= ChunkLimit
    /\ k > 0 => /\ SizeFrom(texts)[1] > RoleBudget
                /\ SizeFrom(texts)[k] > RoleBudget - HeadReserve
    /\ k < n - 1 => SizeFrom(texts)[k + 1] <= RoleBudget

=============================================================================
