----------------------------- MODULE ClaimCode ------------------------------
(***************************************************************************)
(* The claim code as it is printed on a chassis, as somebody types it and  *)
(* as the backend reads it (services/claim_code.py; AddDeviceWizard.tsx).  *)
(* A code is a sequence of symbols; the HMAC may give any body.            *)
(***************************************************************************)
EXTENDS Naturals, Sequences, SequencesExt

CONSTANTS
    BodySymbols,    \* Base32 symbols
    BodyLength,     \* CODE_BODY_LENGTH
    Keyboard,       \* what may be typed
    MaxTyped        \* bound on the symbols typed

Prefix == <<"V", "1", "-">>
Space == "space"

\* What generate_claim_code may print.
Printed == {Prefix \o body : body \in [1 .. BodyLength -> BodySymbols]}

Capital == [v |-> "V", i |-> "I", o |-> "O", b |-> "B"]
Lookalikes == [c \in {"0", "1", "8"} |->
                  CASE c = "0" -> "O" [] c = "1" -> "I" [] c = "8" -> "B"]

\* A Base32 body has capitals, and none of the digits that look like a letter.
ASSUME ClaimCodeAssumption ==
    /\ BodyLength \in Nat /\ MaxTyped \in Nat
    /\ BodySymbols \cap (DOMAIN Capital \cup DOMAIN Lookalikes) = {}

Translate(table, c) == IF c \in DOMAIN table THEN table[c] ELSE c

Upper(code) == [k \in DOMAIN code |-> Translate(Capital, code[k])]

\* The spaces are dropped, wherever they are.
KeepInk(ink, c) == IF c = Space THEN ink ELSE Append(ink, c)
Compact(code) ==
    LET ink[k \in 0 .. Len(code)] ==
          IF k = 0 THEN <<>> ELSE KeepInk(ink[k - 1], code[k])
    IN  ink[Len(code)]

\* Every lookalike is read as a letter, the version's digits too.
NormalizeEverywhere(code) ==
    [k \in DOMAIN Compact(code) |->
        Translate(Lookalikes, Upper(Compact(code))[k])]

\* The body is what follows the first dash; without a dash there is none.
Partitioned(compact) ==
    LET dash == SelectInSeq(compact, LAMBDA c : c = "-")
    IN  [k \in DOMAIN compact |->
            IF dash # 0 /\ k > dash THEN Translate(Lookalikes, compact[k])
            ELSE compact[k]]

\* normalize_claim_code
Normalize(code) == Partitioned(Upper(Compact(code)))

\* The wizard: trim() and toUpperCase().
Submitted(typed) ==
    LET Ink(c) == c # Space
    IN  Upper(SubSeq(typed, SelectInSeq(typed, Ink), SelectLastInSeq(typed, Ink)))

-----------------------------------------------------------------------------
\* How a printed symbol may be read off a label and typed.
Reading(k, c) ==
    {c} \cup {low \in DOMAIN Capital : Capital[low] = c}
        \cup IF k <= Len(Prefix) THEN {}
             ELSE {digit \in DOMAIN Lookalikes : Lookalikes[digit] = c}

ReadAs(ink, printed) ==
    /\ Len(ink) = Len(printed)
    /\ \A k \in DOMAIN ink : ink[k] \in Reading(k, printed[k])

IsReading(typed, printed) == ReadAs(Compact(typed), printed)

\* What is accepted for a printed code, straight from the API or through the
\* wizard, are its readings, with spaces anywhere.
AcceptsReadings ==
    \A typed \in BoundedSeq(Keyboard, MaxTyped), printed \in Printed :
        /\ Normalize(typed) = printed <=> IsReading(typed, printed)
        /\ Compact(typed) # <<>> =>
              Normalize(Submitted(typed)) = Normalize(typed)
=============================================================================
