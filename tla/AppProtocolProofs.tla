--------------------------- MODULE AppProtocolProofs ---------------------------
(***************************************************************************)
(* The selection of the application protocol, for any number of offers,    *)
(* any priorities and versions, and any moments at which the application   *)
(* sets the protocol mask.                                                 *)
(***************************************************************************)
EXTENDS AppProtocol, SequenceTheorems, TLAPS

-------------------------------------------------------------------------------

(* Type correctness. *)

\* A list of offers is a sequence, and its length is what its domain says.
LEMMA OffersAreSequence ==
  ASSUME NEW n \in Nat, NEW list \in [1..n -> Offers]
  PROVE  list \in Seq(Offers) /\ Len(list) = n
  <1>1. list \in Seq(Offers)
    BY SeqDef
  <1>. QED
    BY <1>1, LenProperties

\* Priorities can be compared.
LEMMA PriorityIsNumber == \A priority \in Priorities : priority \in Int
  <1>1. \A n \in 0..255 : n \in Int
    OBVIOUS
  <1>. QED
    BY <1>1, PriorityAssumption, Zenon

\* What the types say of the offers, in the forms that the proofs use.
LEMMA OffersType ==
  ASSUME TypeOK
  PROVE  /\ Len(offers) \in 0..MaxOffers
         /\ DOMAIN offers = 1..Len(offers)
         /\ \A j \in 1..Len(offers) : offers[j] \in Offers
  <1>1. PICK n \in 0..MaxOffers : offers \in [1..n -> Offers]
    BY DEF TypeOK
  <1>2. offers \in Seq(Offers) /\ Len(offers) = n
    BY <1>1, OffersAreSequence, OffersAssumption
  <1>. QED
    BY <1>1, <1>2

\* The list without offers.
LEMMA NoOffers ==
  /\ \E n \in 0..MaxOffers : <<>> \in [1..n -> Offers]
  /\ Len(<<>>) = 0
  <1>1. <<>> \in [1..0 -> Offers] /\ Len(<<>>) = 0
    BY EmptySeq
  <1>. QED
    BY <1>1, OffersAssumption

\* The types, and what makes them inductive: a response is that of the offers
\* at hand, and whatever is selected is a protocol.
TypeInv ==
  /\ TypeOK
  /\ pc # "send" => response = 0
  /\ selection # 0 => offers[selection].matches \in Protocols

\* The initial states are well typed.
LEMMA TypeInit == Init => TypeInv
  <1>. SUFFICES ASSUME Init
                PROVE  TypeInv
    OBVIOUS
  <1>1. \E n \in 0..MaxOffers : offers \in [1..n -> Offers]
    BY NoOffers DEF Init
  <1>2. selection <= Len(offers) /\ response <= Len(offers)
    BY NoOffers DEF Init
  <1>3. /\ i \in 1..(MaxOffers + 1) /\ selection \in 0..MaxOffers
        /\ best_priority \in 0..255 /\ response \in 0..MaxOffers
    BY OffersAssumption DEF Init, Lowest
  <1>. QED
    BY <1>1, <1>2, <1>3 DEF Init, TypeOK, TypeInv

\* A turn of the loop selects the offer it examines, if that is supported, or
\* stands by its selection.
LEMMA ExamineStep ==
  ASSUME TypeOK, Examine
  PROVE  /\ i \in 1..Len(offers) /\ offers[i] \in Offers /\ offers[i].priority \in 0..255
         /\ \/ /\ Chosen(offers[i], mask, selection, best_priority)
               /\ selection' = i /\ best_priority' = offers[i].priority
            \/ /\ ~Chosen(offers[i], mask, selection, best_priority)
               /\ selection' = selection /\ best_priority' = best_priority
  <1>1. i \in 1..Len(offers) /\ offers[i] \in Offers
    BY OffersType DEF Examine, TypeOK
  <1>2. offers[i].priority \in 0..255
    BY <1>1, PriorityAssumption DEF Offers
  <1>. QED
    BY <1>1, <1>2 DEF Examine

\* Every step keeps the types.
LEMMA TypeStep == TypeInv /\ [Next]_vars => TypeInv'
  <1>. SUFFICES ASSUME TypeInv, [Next]_vars
                PROVE  TypeInv'
    OBVIOUS
  <1>. USE DEF TypeInv
  <1>0. Len(offers) \in 0..MaxOffers /\ \A j \in 1..Len(offers) : offers[j] \in Offers
    BY OffersType
  <1>1. CASE UNCHANGED vars
    BY <1>1 DEF TypeOK, vars, loopVars
  <1>2. CASE SetMask
    <2>1. changed' \in BOOLEAN
      BY <1>2, Zenon DEF SetMask, TypeOK
    <2>2. mask' \subseteq Maskable /\ enabled' \subseteq Maskable
      BY <1>2 DEF SetMask, TypeOK
    <2>3. UNCHANGED <<pc, offers, i, selection, best_priority, detected, phase, pinned, response>>
      BY <1>2 DEF SetMask, loopVars
    <2>. QED
      BY <2>1, <2>2, <2>3 DEF TypeOK
  <1>3. CASE Receive
    <2>1. \E n \in 0..MaxOffers : offers' \in [1..n -> Offers]
      BY <1>3 DEF Receive
    <2>2. Len(offers') \in Nat
      BY <2>1, OffersAreSequence, OffersAssumption
    <2>3. /\ i' \in 1..(MaxOffers + 1) /\ selection' \in 0..MaxOffers
          /\ selection' <= Len(offers') /\ best_priority' \in 0..255
          /\ response' = 0 /\ response' \in 0..MaxOffers /\ response' <= Len(offers')
          /\ selection' = 0
      BY <1>3, <2>2, OffersAssumption DEF Receive, StartLoop, Lowest
    <2>. QED
      BY <1>3, <2>1, <2>3 DEF Receive, TypeOK
  <1>4. CASE Examine
    <2>1. /\ i' \in 1..(MaxOffers + 1) /\ selection' \in 0..MaxOffers
          /\ selection' <= Len(offers) /\ best_priority' \in 0..255
      <3>1. i \in 1..Len(offers) /\ offers[i].priority \in 0..255 /\ i' = i + 1
        BY <1>4, ExamineStep DEF Examine
      <3>2. \/ selection' = i /\ best_priority' = offers[i].priority
            \/ selection' = selection /\ best_priority' = best_priority
        BY <1>4, ExamineStep
      <3>3. Len(offers) \in Nat /\ MaxOffers \in Nat /\ Len(offers) <= MaxOffers
        BY <1>0, OffersAssumption
      <3>4. i \in Nat /\ 1 <= i /\ i <= Len(offers) /\ i \in 0..MaxOffers
        BY <3>1, <3>3
      <3>5. selection' \in 0..MaxOffers /\ selection' <= Len(offers)
        BY <3>2, <3>4 DEF TypeOK
      <3>6. best_priority' \in 0..255
        BY <3>1, <3>2 DEF TypeOK
      <3>. QED
        BY <3>1, <3>3, <3>4, <3>5, <3>6
    <2>2. selection' # 0 => offers[selection'].matches \in Protocols
      BY <1>4, ExamineStep DEF Chosen, Supported
    <2>. QED
      BY <1>4, <2>1, <2>2 DEF Examine, TypeOK
  <1>5. CASE Accept \/ Reject
    <2>1. ProtocolOf(selection) \in Protocols \cup {Unknown}
      BY DEF ProtocolOf
    <2>2. Hint \in Protocols \cup {Unknown}
      BY <2>1 DEF Hint, TypeOK
    <2>3. CASE Accept
      <3>1. /\ i' \in 1..(MaxOffers + 1) /\ selection' \in 0..MaxOffers
            /\ selection' <= Len(offers) /\ best_priority' \in 0..255 /\ selection' = 0
        BY <1>0, <2>3, OffersAssumption DEF Accept, StartLoop, Lowest
      <3>. QED
        BY <2>1, <2>2, <2>3, <3>1 DEF Accept, Detected, TypeOK
    <2>4. CASE Reject
      BY <2>1, <2>4 DEF Reject, Detected, TypeOK, loopVars
    <2>. QED
      BY <1>5, <2>3, <2>4
  <1>6. CASE Answer
    BY <1>6 DEF Answer, TypeOK, loopVars
  <1>7. CASE Sent
    <2>1. \E n \in 0..MaxOffers : offers' \in [1..n -> Offers]
      BY <1>7, NoOffers DEF Sent
    <2>2. Len(offers') = 0
      BY <1>7, NoOffers DEF Sent
    <2>3. /\ i' \in 1..(MaxOffers + 1) /\ selection' \in 0..MaxOffers
          /\ selection' <= Len(offers') /\ best_priority' \in 0..255
          /\ response' \in 0..MaxOffers /\ response' <= Len(offers') /\ selection' = 0
      BY <1>7, <2>2, OffersAssumption DEF Sent, StartLoop, Lowest
    <2>. QED
      BY <1>7, <2>1, <2>3 DEF Sent, TypeOK
  <1>. QED
    BY <1>1, <1>2, <1>3, <1>4, <1>5, <1>6, <1>7 DEF Next

\* The state of the two runs of the selection keeps its types, whenever the mask
\* is set (select_app_protocol and its callers in secc.c).
THEOREM TypeCorrect == Spec => []TypeOK
  <1>1. TypeInv => TypeOK
    BY DEF TypeInv
  <1>. QED
    BY <1>1, TypeInit, TypeStep, PTL DEF Spec

-------------------------------------------------------------------------------

(* The loop finds the best offer. *)

\* What the loop holds: the best of what it has seen, with its priority.
Loop ==
  pc \in {"detect", "answer"} =>
    /\ selection < i
    /\ selection # 0 => best_priority = offers[selection].priority
    /\ ~changed => IsBest(selection, i - 1, mask)

\* A turn of the loop keeps what it holds the best.
LEMMA LoopTurn ==
  ASSUME TypeInv, Loop, Examine
  PROVE  Loop'
  <1>. USE DEF TypeInv
  <1>1. /\ i \in 1..Len(offers) /\ i' = i + 1 /\ i' - 1 = i
        /\ offers' = offers /\ mask' = mask /\ changed' = changed /\ pc' = pc
        /\ pc \in {"detect", "answer"} /\ selection \in Nat /\ i \in Nat
    BY ExamineStep, OffersType DEF Examine, TypeOK
  <1>2. \A j \in 1..i : offers[j].priority \in Int /\ j \in Int
    <2>1. TAKE j \in 1..i
    <2>2. j \in 1..Len(offers) /\ j \in Int
      BY <1>1, OffersType
    <2>3. offers[j] \in Offers
      BY <2>2, OffersType
    <2>4. offers[j].priority \in Priorities
      BY <2>3 DEF Offers
    <2>. QED
      BY <2>2, <2>4, PriorityIsNumber
  <1>3. \A j \in 1..i : j \in 1..(i - 1) \/ j = i
    BY <1>1
  <1>4. CASE Chosen(offers[i], mask, selection, best_priority)
    <2>1. selection' = i /\ best_priority' = offers[i].priority
      BY <1>4, ExamineStep
    <2>2. Supported(offers[i], mask) /\ (selection # 0 => offers[i].priority < offers[selection].priority)
      <3>1. selection # 0 => best_priority = offers[selection].priority
        BY <1>1 DEF Loop
      <3>2. selection # 0 => ~(offers[i].priority >= best_priority)
        BY <1>4 DEF Chosen, Outranked
      <3>3. selection # 0 => selection \in 1..i
        BY <1>1 DEF Loop
      <3>. QED
        BY <1>1, <1>2, <1>4, <3>1, <3>2, <3>3 DEF Chosen
    <2>3. ASSUME ~changed
          PROVE  IsBest(i, i, mask)
      <3>1. IsBest(selection, i - 1, mask)
        BY <1>1, <2>3 DEF Loop
      <3>2. ASSUME NEW j \in 1..i, Supported(offers[j], mask)
            PROVE  \/ offers[i].priority < offers[j].priority
                   \/ offers[i].priority = offers[j].priority /\ i <= j
        <4>1. CASE j = i
          BY <1>1, <4>1
        <4>2. CASE j \in 1..(i - 1)
          <5>0. /\ selection \in 1..(i - 1)
                /\ \/ offers[selection].priority < offers[j].priority
                   \/ offers[selection].priority = offers[j].priority
            BY <3>1, <3>2, <4>2 DEF IsBest
          <5>1. selection \in 1..(i - 1) /\ offers[selection].priority <= offers[j].priority
            <6>1. selection \in 1..i
              BY <1>1, <5>0
            <6>2. offers[selection].priority \in Int /\ offers[j].priority \in Int
              BY <1>2, <6>1
            <6>. QED
              BY <5>0, <6>2
          <5>2. selection \in 1..i /\ selection # 0
            BY <1>1, <5>1
          <5>. QED
            BY <1>1, <1>2, <2>2, <5>1, <5>2
        <4>. QED
          BY <1>3, <4>1, <4>2
      <3>3. i \in 1..i
        BY <1>1
      <3>. QED
        BY <2>2, <3>2, <3>3 DEF IsBest
    <2>4. i < i + 1
      BY <1>1
    <2>. QED
      BY <1>1, <2>1, <2>3, <2>4 DEF Loop, IsBest
  <1>5. CASE ~Chosen(offers[i], mask, selection, best_priority)
    <2>1. selection' = selection /\ best_priority' = best_priority
      BY <1>5, ExamineStep
    <2>2. selection < i + 1 /\ (selection # 0 => best_priority = offers[selection].priority)
      BY <1>1 DEF Loop
    <2>3. ASSUME ~changed
          PROVE  IsBest(selection, i, mask)
      <3>1. IsBest(selection, i - 1, mask)
        BY <1>1, <2>3 DEF Loop
      <3>2. CASE ~Supported(offers[i], mask)
        <4>1. \A j \in 1..i : Supported(offers[j], mask) => j \in 1..(i - 1)
          BY <1>3, <3>2
        <4>2. \A j \in 1..(i - 1) : j \in 1..i
          BY <1>1
        <4>. QED
          BY <3>1, <4>1, <4>2 DEF IsBest
      <3>3. CASE Supported(offers[i], mask)
        <4>1. selection # 0 /\ offers[i].priority >= offers[selection].priority
          BY <1>5, <2>2, <3>3 DEF Chosen, Outranked
        <4>2. selection \in 1..(i - 1) /\ Supported(offers[selection], mask)
          BY <3>1, <4>1 DEF IsBest
        <4>3. ASSUME NEW j \in 1..i, Supported(offers[j], mask)
              PROVE  \/ offers[selection].priority < offers[j].priority
                     \/ offers[selection].priority = offers[j].priority /\ selection <= j
          <5>1. CASE j \in 1..(i - 1)
            BY <3>1, <4>3, <5>1 DEF IsBest
          <5>2. CASE j = i
            BY <1>1, <1>2, <4>1, <4>2, <5>2
          <5>. QED
            BY <1>3, <5>1, <5>2
        <4>4. selection \in 1..i
          BY <1>1, <4>2
        <4>. QED
          BY <4>2, <4>3, <4>4 DEF IsBest
      <3>. QED
        BY <3>2, <3>3
    <2>. QED
      BY <1>1, <2>1, <2>2, <2>3 DEF Loop, IsBest
  <1>. QED
    BY <1>4, <1>5

\* Before the first turn nothing has been seen.
LEMMA NothingSeen == \A m : IsBest(0, 0, m)
  BY DEF IsBest

\* Every step keeps what the loop holds.
LEMMA LoopStep == TypeInv /\ Loop /\ [Next]_vars => Loop'
  <1>. SUFFICES ASSUME TypeInv, Loop, [Next]_vars
                PROVE  Loop'
    OBVIOUS
  <1>1. CASE UNCHANGED vars
    BY <1>1 DEF Loop, IsBest, vars, loopVars
  <1>2. CASE SetMask
    <2>1. UNCHANGED <<pc, offers, i, selection, best_priority>> /\ (~changed' => ~changed /\ mask' = mask)
      BY <1>2 DEF SetMask, loopVars
    <2>. QED
      BY <2>1 DEF Loop, IsBest
  <1>3. CASE Receive \/ Accept
    <2>1. i' = 1 /\ selection' = 0
      BY <1>3 DEF Receive, Accept, StartLoop
    <2>. QED
      BY <2>1 DEF Loop, IsBest
  <1>4. CASE Examine
    BY <1>4, LoopTurn
  <1>5. CASE Reject \/ Answer \/ Sent
    BY <1>5 DEF Reject, Answer, Sent, Loop
  <1>. QED
    BY <1>1, <1>2, <1>3, <1>4, <1>5 DEF Next

\* However many offers there are, the loop holds the best of those it has seen
\* (select_app_protocol).
THEOREM BestSelected == Spec => []SelectionIsBest
  <1>1. Init => Loop
    BY DEF Init, Loop
  <1>2. Loop => SelectionIsBest
    BY DEF Loop, SelectionIsBest
  <1>. QED
    BY <1>1, <1>2, TypeInit, TypeStep, LoopStep, PTL DEF Spec

-------------------------------------------------------------------------------

(* The answer and the pinned protocol. *)

\* There is one best offer.
LEMMA BestIsUnique ==
  ASSUME TypeInv, NEW a, NEW b, NEW m,
         IsBest(a, Len(offers), m), IsBest(b, Len(offers), m)
  PROVE  a = b
  <1>1. CASE \A j \in 1..Len(offers) : ~Supported(offers[j], m)
    BY <1>1 DEF IsBest
  <1>2. CASE ~ \A j \in 1..Len(offers) : ~Supported(offers[j], m)
    <2>1. /\ a \in 1..Len(offers) /\ b \in 1..Len(offers)
          /\ \/ offers[a].priority < offers[b].priority
             \/ offers[a].priority = offers[b].priority /\ a <= b
          /\ \/ offers[b].priority < offers[a].priority
             \/ offers[b].priority = offers[a].priority /\ b <= a
      BY <1>2 DEF IsBest
    <2>2. offers[a] \in Offers /\ offers[b] \in Offers
      BY <2>1, OffersType DEF TypeInv
    <2>3. offers[a].priority \in Priorities /\ offers[b].priority \in Priorities
      BY <2>2 DEF Offers
    <2>4. offers[a].priority \in Int /\ offers[b].priority \in Int /\ a \in Int /\ b \in Int
      BY <2>1, <2>3, PriorityIsNumber
    <2>. QED
      BY <2>1, <2>4
  <1>. QED
    BY <1>1, <1>2

\* A loop that is through has found the best of all offers.
LEMMA LoopDone ==
  ASSUME TypeInv, Loop, pc \in {"detect", "answer"}, i > Len(offers), ~changed
  PROVE  IsBest(selection, Len(offers), mask)
  <1>1. CASE \A j \in 1..(i - 1) : ~Supported(offers[j], mask)
    <2>1. selection = 0
      BY <1>1 DEF Loop, IsBest
    <2>2. \A j \in 1..Len(offers) : j \in 1..(i - 1)
      BY OffersType DEF TypeInv, TypeOK
    <2>. QED
      BY <1>1, <2>1, <2>2 DEF IsBest
  <1>2. CASE ~ \A j \in 1..(i - 1) : ~Supported(offers[j], mask)
    <2>1. /\ selection \in 1..(i - 1) /\ Supported(offers[selection], mask)
          /\ \A j \in 1..(i - 1) : Supported(offers[j], mask) =>
               \/ offers[selection].priority < offers[j].priority
               \/ offers[selection].priority = offers[j].priority /\ selection <= j
      BY <1>2 DEF Loop, IsBest
    <2>2. \A j \in 1..Len(offers) : j \in 1..(i - 1)
      BY OffersType DEF TypeInv, TypeOK
    <2>3. selection \in 1..Len(offers)
      BY <2>1, OffersType DEF TypeInv, TypeOK
    <2>. QED
      BY <2>1, <2>2, <2>3 DEF IsBest
  <1>. QED
    BY <1>1, <1>2

\* What the second run will find is what the first has pinned.
Pinned ==
  /\ pc = "answer" /\ ~changed =>
       \E s : IsBest(s, Len(offers), mask) /\ (s # 0 => offers[s].matches = pinned)
  /\ pc = "send" /\ ~changed =>
       IsBest(response, Len(offers), mask) /\ (response # 0 => offers[response].matches = pinned)

\* Every step keeps the answer to the offers what was pinned for them.
LEMMA PinnedStep == TypeInv /\ Loop /\ Pinned /\ [Next]_vars => Pinned'
  <1>. SUFFICES ASSUME TypeInv, Loop, Pinned, [Next]_vars
                PROVE  Pinned'
    OBVIOUS
  <1>1. CASE UNCHANGED vars
    BY <1>1 DEF Pinned, IsBest, vars, loopVars
  <1>2. CASE SetMask
    <2>1. UNCHANGED <<pc, offers, response, pinned>> /\ (~changed' => ~changed /\ mask' = mask)
      BY <1>2 DEF SetMask
    <2>. QED
      BY <2>1 DEF Pinned, IsBest
  <1>3. CASE Receive \/ Reject \/ Sent
    BY <1>3 DEF Receive, Reject, Sent, Pinned
  <1>4. CASE Examine
    BY <1>4 DEF Examine, Pinned, IsBest
  <1>5. CASE Accept
    <2>1. /\ pc' = "answer" /\ offers' = offers /\ mask' = mask /\ changed' = changed
          /\ pc = "detect" /\ i > Len(offers) /\ pinned' = Hint
      BY <1>5 DEF Accept, Detected
    <2>2. ASSUME ~changed
          PROVE  IsBest(selection, Len(offers), mask)
      BY <2>1, <2>2, LoopDone
    <2>3. selection # 0 => offers[selection].matches = Hint
      BY DEF Hint, ProtocolOf, TypeInv, Protocols, Maskable, Unknown
    <2>. QED
      BY <2>1, <2>2, <2>3 DEF Pinned, IsBest
  <1>6. CASE Answer
    <2>1. /\ pc = "answer" /\ pc' = "send" /\ offers' = offers /\ mask' = mask
          /\ changed' = changed /\ i > Len(offers) /\ pinned' = pinned
          /\ response' = selection
      BY <1>6 DEF Answer
    <2>2. ASSUME ~changed
          PROVE  /\ IsBest(selection, Len(offers), mask)
                 /\ selection # 0 => offers[selection].matches = pinned
      <3>1. IsBest(selection, Len(offers), mask)
        BY <2>1, <2>2, LoopDone
      <3>2. PICK s : IsBest(s, Len(offers), mask) /\ (s # 0 => offers[s].matches = pinned)
        BY <2>1, <2>2 DEF Pinned
      <3>3. s = selection
        BY <3>1, <3>2, BestIsUnique
      <3>. QED
        BY <3>1, <3>2, <3>3
    <2>. QED
      BY <2>1, <2>2 DEF Pinned, IsBest
  <1>. QED
    BY <1>1, <1>2, <1>3, <1>4, <1>5, <1>6 DEF Next

\* Although it is selected a second time, the protocol answered with is the one
\* the sequencer has pinned, as long as the mask was not set in between; and a
\* refusal means that no offer could be served (secc.c).
THEOREM PinnedAnswered == Spec => []AnswerIsPinned
  <1>1. Init => Loop /\ Pinned
    BY DEF Init, Loop, Pinned
  <1>2. TypeInv /\ Pinned => AnswerIsPinned
    <2>. SUFFICES ASSUME TypeInv, Pinned, pc = "send", ~changed
                  PROVE  /\ response # 0 => ProtocolOf(response) = pinned
                         /\ response = 0 =>
                              \A j \in DOMAIN offers : ~Supported(offers[j], mask)
      BY DEF AnswerIsPinned
    <2>1. DOMAIN offers = 1..Len(offers) /\ Len(offers) \in Nat
      BY OffersType, OffersAssumption DEF TypeInv
    <2>2. IsBest(response, Len(offers), mask)
      BY DEF Pinned
    <2>3. response = 0 => \A j \in 1..Len(offers) : ~Supported(offers[j], mask)
      BY <2>1, <2>2 DEF IsBest
    <2>. QED
      BY <2>1, <2>3 DEF Pinned, ProtocolOf
  <1>. QED
    BY <1>1, <1>2, TypeInit, TypeStep, LoopStep, PinnedStep, PTL DEF Spec

-------------------------------------------------------------------------------

(* A mask that changes. *)

\* Whatever is held was enabled at some moment of this request.
WasEnabled ==
  /\ mask \subseteq enabled
  /\ pc \in {"detect", "answer"} /\ selection # 0 =>
       Enabled(offers[selection].matches, enabled)
  /\ pc = "answer" => detected = Unknown \/ Enabled(detected, enabled)
  /\ pc = "send" => response = 0 \/ Enabled(offers[response].matches, enabled)

\* What was enabled stays so in a larger set.
LEMMA EnabledGrows ==
  ASSUME NEW protocol, NEW m, NEW larger, m \subseteq larger, Enabled(protocol, m)
  PROVE  Enabled(protocol, larger)
  BY DEF Enabled

\* Every step, those that set the mask among them, keeps it so.
LEMMA EnabledStep == TypeInv /\ WasEnabled /\ [Next]_vars => WasEnabled'
  <1>. SUFFICES ASSUME TypeInv, WasEnabled, [Next]_vars
                PROVE  WasEnabled'
    OBVIOUS
  <1>1. CASE UNCHANGED vars
    BY <1>1 DEF WasEnabled, vars, loopVars
  <1>2. CASE SetMask
    <2>1. /\ UNCHANGED <<pc, offers, selection, detected, response>>
          /\ enabled \subseteq enabled' /\ mask' \subseteq enabled'
      BY <1>2 DEF SetMask, loopVars
    <2>. QED
      BY <2>1, EnabledGrows DEF WasEnabled
  <1>3. CASE Receive \/ Sent
    BY <1>3 DEF Receive, Sent, StartLoop, WasEnabled
  <1>4. CASE Examine
    <2>1. UNCHANGED <<mask, pc, offers, detected, response, enabled>>
      BY <1>4 DEF Examine
    <2>2. CASE Chosen(offers[i], mask, selection, best_priority) /\ selection' = i
      <3>1. Enabled(offers[i].matches, mask)
        BY <2>2 DEF Chosen, Supported
      <3>. QED
        BY <2>1, <2>2, <3>1, EnabledGrows DEF WasEnabled
    <2>3. CASE selection' = selection
      BY <2>1, <2>3 DEF WasEnabled
    <2>. QED
      BY <1>4, <2>2, <2>3, ExamineStep DEF TypeInv
  <1>5. CASE Accept
    <2>1. /\ UNCHANGED <<mask, offers, enabled>> /\ pc' = "answer" /\ pc = "detect"
          /\ detected' = ProtocolOf(selection) /\ selection' = 0
      BY <1>5 DEF Accept, Detected, StartLoop
    <2>. QED
      BY <2>1 DEF WasEnabled, ProtocolOf
  <1>6. CASE Reject
    BY <1>6 DEF Reject, Detected, WasEnabled
  <1>7. CASE Answer
    BY <1>7 DEF Answer, WasEnabled
  <1>. QED
    BY <1>1, <1>2, <1>3, <1>4, <1>5, <1>6, <1>7 DEF Next

\* At whatever moment of the two runs the mask is set, nothing is detected or
\* answered with that was disabled throughout (secc.c, protocol_enabled).
THEOREM EnabledSelected == Spec => []SelectedWasEnabled
  <1>1. Init => WasEnabled
    BY DEF Init, WasEnabled
  <1>2. WasEnabled => SelectedWasEnabled
    BY DEF WasEnabled, SelectedWasEnabled, ProtocolOf
  <1>. QED
    BY <1>1, <1>2, TypeInit, TypeStep, EnabledStep, PTL DEF Spec

=============================================================================
