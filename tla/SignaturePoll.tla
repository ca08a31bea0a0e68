--------------------------- MODULE SignaturePoll ---------------------------
(***************************************************************************)
(* A poller over get_signatures_for_address (src/src/rpc/mod.rs): it asks  *)
(* for the signatures newer than its cursor, reports them oldest first and *)
(* moves the cursor to the newest.  Signatures are numbered in the order   *)
(* they touched the address.  The node, the poller and the loss of answers *)
(* are external; the request's options and the decoding are the method's.  *)
(***************************************************************************)
EXTENDS Integers, Sequences, SequencesExt

CONSTANTS
    PageLimit,      \* signatures a node returns at most
    Burst,          \* signatures that may arrive between two good polls
    MaxSignatures   \* bound: signatures in all

ASSUME PollAssumption ==
    /\ PageLimit \in Nat \ {0}
    /\ Burst \in Nat /\ MaxSignatures \in Nat

VARIABLES
    history,        \* how many signatures have touched the address
    unreadable,     \* those whose entries this client cannot decode
    cursor,         \* the newest signature reported; 0 is none
    reported,       \* the signatures in the order they were reported
    asked,          \* the options of the request on its way, or Nothing
    page,           \* the node's answer on its way, or Nothing
    known           \* history: what the node knew when it answered

pollVars == <<history, unreadable, cursor, reported, asked, page, known>>

Nothing == <<-1>>

PollInit ==
    /\ history = 0 /\ unreadable = {}
    /\ cursor = 0 /\ reported = <<>>
    /\ asked = Nothing /\ page = Nothing /\ known = 0

-----------------------------------------------------------------------------

(* Mutant of Options: forgets the cursor.                                  *)
OptionsWithoutUntil(until) == <<>>

(* `until` goes into the options only when there is one.                   *)
Options(until) == IF until = 0 THEN <<>> ELSE <<until>>

(* The newest PageLimit of the signatures above `until`, newest first.     *)
Answer(options) ==
    LET above == IF options = <<>> THEN 0 ELSE options[1]
        from  == IF history - above > PageLimit THEN history - PageLimit ELSE above
    IN  [i \in 1 .. history - from |-> history - i + 1]

(* Mutant of DecodePage: leaves out what does not decode.                  *)
DecodePageSkipping(entries) ==
    [ok |-> TRUE, page |-> SelectSeq(entries, LAMBDA s : s \notin unreadable)]

(* One entry without a `signature` or a `slot` fails the whole page.       *)
DecodePage(entries) ==
    IF \E i \in 1 .. Len(entries) : entries[i] \in unreadable
    THEN [ok |-> FALSE, page |-> <<>>] ELSE [ok |-> TRUE, page |-> entries]

-----------------------------------------------------------------------------

Ask ==
    /\ asked = Nothing
    /\ asked' = Options(cursor)
    /\ UNCHANGED <<history, unreadable, cursor, reported, page, known>>

ServePage ==
    /\ asked # Nothing /\ page = Nothing
    /\ page' = Answer(asked)
    /\ known' = history
    /\ UNCHANGED <<history, unreadable, cursor, reported, asked>>

(* The transport fails, before the node answers or after.                  *)
Lose ==
    /\ asked # Nothing
    /\ asked' = Nothing /\ page' = Nothing
    /\ UNCHANGED <<history, unreadable, cursor, reported, known>>

(* The call returns; an error leaves the poller where it was.              *)
Receive ==
    /\ page # Nothing
    /\ LET decoded == DecodePage(page) IN
       /\ reported' = reported \o Reverse(decoded.page)
       /\ cursor' = IF decoded.page = <<>> THEN cursor ELSE decoded.page[1]
    /\ asked' = Nothing /\ page' = Nothing
    /\ UNCHANGED <<history, unreadable, known>>

(* A transaction touches the address.                                      *)
Touch ==
    /\ history < MaxSignatures
    /\ history - cursor < Burst
    /\ history' = history + 1
    /\ UNCHANGED <<unreadable, cursor, reported, asked, page, known>>

(* The node's entry for a signature becomes unreadable, or readable again. *)
Spoil(s) ==
    /\ page = Nothing
    /\ unreadable' = IF s \in unreadable THEN unreadable \ {s} ELSE unreadable \cup {s}
    /\ UNCHANGED <<history, cursor, reported, asked, page, known>>

PollNext == Ask \/ ServePage \/ Lose \/ Receive \/ Touch \/ \E s \in cursor + 1 .. history : Spoil(s)

PollSpec == PollInit /\ [][PollNext]_pollVars

-----------------------------------------------------------------------------

(* Shapes; and never more reports than there are signatures, which `until` *)
(* is for (get_signatures_for_address, opts).                              *)
PollTypeOK ==
    /\ history \in 0 .. MaxSignatures
    /\ unreadable \subseteq 1 .. history
    /\ cursor \in 0 .. history
    /\ reported \in Seq(1 .. MaxSignatures) /\ Len(reported) <= history
    /\ asked = Nothing \/ asked = Options(cursor)
    /\ Len(page) <= PageLimit

(* The page holds everything newer than `until` that the node knew, if it  *)
(* can hold so much.                                                       *)
PageIsComplete ==
    page # Nothing /\ known - cursor <= PageLimit
        => \A s \in cursor + 1 .. known : \E i \in 1 .. Len(page) : page[i] = s

Previous(i) == IF i = 1 THEN 0 ELSE reported[i - 1]

(* From the i-th report on, a page's worth without a gap.                  *)
FullPageAt(i) ==
    /\ i + PageLimit - 1 <= Len(reported)
    /\ \A k \in 0 .. PageLimit - 1 : reported[i + k] = reported[i] + k

(* However polls, losses, unreadable entries and bursts alternate, reports *)
(* go up without repeating one, the cursor is the newest of them, and the  *)
(* page that is due lacks nothing it could hold.  A gap is a burst's: the  *)
(* reports behind it are a full page (get_signatures_for_address, `until`  *)
(* "for cursor-style pagination across repeated polls").                   *)
NoGapNoRepeat ==
    /\ \A i \in 1 .. Len(reported) :
           /\ reported[i] > Previous(i)
           /\ reported[i] = Previous(i) + 1 \/ FullPageAt(i)
    /\ cursor = Previous(Len(reported) + 1)
    /\ PageIsComplete

(* The poller is a feed: a poll that succeeds delivers the signatures      *)
(* right after those delivered before, or, when more wait than one page    *)
(* holds, some page of those; no other step delivers or retracts anything  *)
(* (get_signatures_for_address with `until`).                              *)
Feed == INSTANCE SignatureFeed WITH touched <- history, delivered <- reported

ImplementsFeed == Feed!Spec

=============================================================================
