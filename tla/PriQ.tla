-------------------------------- MODULE PriQ --------------------------------
(* Priority queues, priq.c: a heap in an array that grows, with the least   *)
(* key first.  of_inlin.c keeps the calls to be inlined in one.             *)
(*                                                                          *)
(* An insertion or an extraction is a call followed by one step for each    *)
(* exchange of a sift.  Indices are those of the array plus one.            *)
EXTENDS Integers, Sequences, SequencesExt, Bags

CONSTANTS
    Key, Entry,  \* what is put into queues
    Guesses,     \* what priqNew may be told
    Nothing,     \* nothing taken yet
    MaxArgc,     \* bound: parts in the queue
    MaxPriqOps   \* bound: calls


VARIABLES
    size, argv,  \* the queue; argc is the length of argv
    sift,        \* the sift in progress: [dir, at], or dir "none"
    extracted,   \* what the last call, if priqExtractMin, has taken out
    content,     \* history: the bag of what was put in and not taken out
    priqOps

priqVars == <<size, argv, sift, extracted, content, priqOps>>

Part == [key : Key, entry : Entry]
NoSift == [dir |-> "none", at |-> 0]
argc == Len(argv)

\* cielLg.
CielLg(n) == CHOOSE i \in 0 .. n : n <= 2 ^ i /\ \A j \in 0 .. i - 1 : 2 ^ j < n

\* The last is a fact of arithmetic, of which TLAPS knows powers by name only.
ASSUME PriQConstants ==
    /\ Key \subseteq Int
    /\ Guesses \subseteq Nat
    /\ \A guess \in Guesses : 2 ^ CielLg(guess) \in Nat \ {0}

PriqInit ==
    /\ \E guess \in Guesses : size = 2 ^ CielLg(guess)
    /\ argv = <<>> /\ sift = NoSift /\ extracted = Nothing
    /\ content = EmptyBag /\ priqOps = 0

Exchange(h, i, j) == [h EXCEPT ![i] = h[j], ![j] = h[i]]
heapParent(i) == i \div 2
heapLeft(i) == 2 * i
heapRight(i) == 2 * i + 1

PriqCall == sift = NoSift /\ priqOps < MaxPriqOps /\ priqOps' = priqOps + 1

priqInsert ==
    /\ PriqCall /\ argc < MaxArgc
    /\ \E p \in Part :
        /\ argv' = Append(argv, p)
        /\ content' = content (+) SetToBag({p})
    /\ size' = IF size = argc THEN 2 * size ELSE size
    /\ sift' = [dir |-> "inward", at |-> argc + 1]
    /\ extracted' = Nothing

\* of_inlin.c looks at priqCount first; the test of size in priqExtractMin is
\* never true.
priqExtractMin ==
    /\ PriqCall /\ argc > 0
    /\ extracted' = argv[1]
    /\ content' = content (-) SetToBag({argv[1]})
    /\ argv' = Front(Exchange(argv, 1, argc))
    /\ sift' = [dir |-> "outward", at |-> 1]
    /\ UNCHANGED size

\* heapSiftInward: one exchange, or the end.
SiftInward ==
    /\ sift.dir = "inward"
    /\ LET i == sift.at
           ip == heapParent(i)
       IN IF i = 1 \/ argv[ip].key < argv[i].key
          THEN sift' = NoSift /\ UNCHANGED argv
          ELSE argv' = Exchange(argv, i, ip) /\ sift' = [sift EXCEPT !.at = ip]
    /\ UNCHANGED <<size, extracted, content, priqOps>>

\* heapSiftOutward: the same; "imax" is the least of the part and its children.
Lesser(ic, imax) ==
    IF ic <= argc /\ argv[ic].key <= argv[imax].key THEN ic ELSE imax
\* Mutant of Imax: the right child is compared with the part, not with the lesser.
ImaxOfPart(i) == IF Lesser(heapRight(i), i) # i THEN heapRight(i) ELSE Lesser(heapLeft(i), i)
Imax(i) == Lesser(heapRight(i), Lesser(heapLeft(i), i))

SiftOutward ==
    /\ sift.dir = "outward"
    /\ LET i == sift.at
       IN IF argc = 0 \/ Imax(i) = i
          THEN sift' = NoSift /\ UNCHANGED argv
          ELSE argv' = Exchange(argv, i, Imax(i)) /\ sift' = [sift EXCEPT !.at = Imax(i)]
    /\ UNCHANGED <<size, extracted, content, priqOps>>

PriqNext == priqInsert \/ priqExtractMin \/ SiftInward \/ SiftOutward
PriqSpec == PriqInit /\ [][PriqNext]_priqVars

-----------------------------------------------------------------------------
BagOf(s) == [p \in ToSet(s) |-> Cardinality({i \in 1 .. Len(s) : s[i] = p})]

\* heapCheck, which calls bug() where this is false.
heapCheck == \A i \in 2 .. argc : ~ (argv[heapParent(i)].key >= argv[i].key)
DifferentKeys == \A i, j \in 1 .. argc : argv[i].key = argv[j].key => i = j

\* Between calls the array fits, it holds what was put in and not taken out,
\* each key with its own entry, and what was taken last had the least key,
\* whichever came first of those with equal keys.  The queue's own check
\* (priq.c:116) finds nothing when no two keys are equal.  With equal keys it
\* calls a queue out of order that serves its clients right, so nothing is said
\* of it then.
LeastFirst ==
    sift = NoSift =>
        /\ argc <= size
        /\ BagOf(argv) = content
        /\ extracted # Nothing => \A i \in 1 .. argc : extracted.key <= argv[i].key
        /\ DifferentKeys => heapCheck
=============================================================================
