-------------------------- MODULE CheckpointFields --------------------------
(***************************************************************************)
(* The fields of a checkpoint that prepare and wait write and resume reads  *)
(* back (src/deixic/tasks.py and client.py): positions, which are kept as   *)
(* decimal strings, and the selection of voices.  TaskSubmission's          *)
(* Resumable takes for granted what is defined here.                        *)
(*                                                                          *)
(* A string is the sequence of its characters: the digits are 0..Base-1,    *)
(* and Base stands for any other character, a sign, a space or a digit      *)
(* outside of ASCII.  A field of another type is refused and left out.      *)
(***************************************************************************)
EXTENDS Naturals, SequencesExt

CONSTANTS
    Base,         \* the number of digits: 10
    MaxPosition,  \* MAX_CURSOR, the greatest int64
    Width,        \* the length of MaxPosition as a string: 19
    Names,        \* ids of voices
    BadNames,     \* strings that are none: empty, padded or too long
    MaxVoices,    \* voices in a selection: 4
    MaxTones      \* tone adjustments in a selection: 3

----------------------------------------------------------------------------
(* Positions. *)

(* str(n) *)
String[n \in Nat] ==
    IF n < Base THEN <<n>> ELSE Append(String[n \div Base], n % Base)

(* int(s) *)
Value[s \in Seq(Nat)] ==
    IF s = << >> THEN 0 ELSE Base * Value[SubSeq(s, 1, Len(s) - 1)] + s[Len(s)]

(* Mutant of IsPosition: the length off by one. *)
IsShorterPosition(s) ==
    /\ Len(s) \in 1..(Width - 1)
    /\ \A i \in 1..Len(s) : s[i] < Base
    /\ String[Value[s]] = s
    /\ Value[s] <= MaxPosition

(* What _decimal accepts. *)
IsPosition(s) ==
    /\ Len(s) \in 1..Width
    /\ \A i \in 1..Len(s) : s[i] < Base
    /\ String[Value[s]] = s
    /\ Value[s] <= MaxPosition

(* The limits belong together: the greatest position has at most Width      *)
(* digits.                                                                  *)
LimitsFit ==
    /\ Base \in Nat /\ Base >= 2
    /\ {MaxPosition, Width, MaxVoices, MaxTones} \subseteq Nat
    /\ Len(String[MaxPosition]) <= Width

----------------------------------------------------------------------------
(* Voices. *)

Tones == 1..3

(* normalize_voice_selection accepts v: mode 2 names voices, the others     *)
(* none.                                                                    *)
IsSelection(v) ==
    /\ v.mode \in 0..3
    /\ Len(v.ids) <= MaxVoices
    /\ IsInjective(v.ids)
    /\ ToSet(v.ids) \subseteq Names
    /\ v.mode = 2 <=> v.ids # << >>
    /\ Len(v.tones) <= MaxTones
    /\ ToSet(v.tones) \subseteq Tones

(* sorted(set) of tones *)
Sorted(set) ==
    CHOOSE s \in BoundedSeq(Tones, 3) :
        ToSet(s) = set /\ \A i, j \in DOMAIN s : i < j => s[i] < s[j]

(* What it returns then. *)
Normalized(v) == [v EXCEPT !.tones = Sorted(ToSet(v.tones))]

(* _voice_from_checkpoint accepts v, and what resume makes of it. *)
IsReadable(v) ==
    Len(v.ids) <= MaxVoices /\ Len(v.tones) <= MaxTones /\ IsSelection(v)

ReadBack(v) == Normalized(Normalized(v))

----------------------------------------------------------------------------
(* Inputs, one beyond each limit. *)

Strings == BoundedSeq(0..Base, Width + 1)

Selections ==
    [mode : 0..4, ids : BoundedSeq(Names \cup BadNames, MaxVoices + 1),
     tones : BoundedSeq(0..4, MaxTones + 1)]

(* Every position up to the limit is stored as a string that resume accepts *)
(* and that means the same position, and no other string is accepted        *)
(* (_decimal); a selection that prepare accepts is stored in a form that    *)
(* resume and send leave as it is.                                          *)
FieldsAreReadBack ==
    /\ \A n \in 0..MaxPosition : IsPosition(String[n]) /\ Value[String[n]] = n
    /\ \A s \in Strings : IsPosition(s) => \E n \in 0..MaxPosition : s = String[n]
    /\ \A v \in Selections :
         IsSelection(v) => /\ IsReadable(Normalized(v))
                           /\ ReadBack(Normalized(v)) = Normalized(v)
=============================================================================
