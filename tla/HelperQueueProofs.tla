------------------------- MODULE HelperQueueProofs -------------------------
(***************************************************************************)
(* Proofs about HelperQueue: the order and the content of the queue file,  *)
(* for any number of trades, failed writes, failed answers and crashes.    *)
(***************************************************************************)
EXTENDS HelperQueue, SequenceTheorems, TLAPS

Text == {"whole", "corrupt", "split"}

----------------------------------------------------------------------------
(* What a write and a removal do to the file.                              *)

\* A text joined to the open line changes that line's text and nothing else.
LEMMA JoinedText ==
  ASSUME TypeOK, open, NEW e \in Event, NEW text \in Text
  PROVE  /\ AppendText(e, text) \in Seq(Line)
         /\ Len(AppendText(e, text)) = Len(file)
         /\ \A i \in 1..Len(file) : AppendText(e, text)[i].ev = file[i].ev
         /\ \A i \in 1..Len(file) : i # Len(file) => AppendText(e, text)[i] = file[i]
<1> DEFINE last == Len(file)
           bad  == "split" \in {text, file[last].text}
           new  == [file[last] EXCEPT !.text = IF bad THEN "split" ELSE "corrupt"]
<1>1. file \in Seq(Line) /\ last \in 1..Len(file)
  BY DEF TypeOK
<1>2. file[last] \in Line
  BY <1>1
<1>3. new \in Line /\ new.ev = file[last].ev
  BY <1>2 DEF Line
<1>4. AppendText(e, text) = [file EXCEPT ![last] = new]
  BY DEF AppendText
<1> HIDE DEF new, last
<1>5. [file EXCEPT ![last] = new] \in Seq(Line)
  BY <1>1, <1>3
<1>6. Len([file EXCEPT ![last] = new]) = Len(file)
  BY <1>1, <1>3
<1>7. \A i \in 1..Len(file) : [file EXCEPT ![last] = new][i] = IF i = last THEN new ELSE file[i]
  BY <1>1
<1> QED BY <1>3, <1>4, <1>5, <1>6, <1>7 DEF last

\* A text on a line of its own is the last line.
LEMMA OwnText ==
  ASSUME TypeOK, ~open, NEW e \in Event, NEW text \in Text
  PROVE  /\ AppendText(e, text) \in Seq(Line)
         /\ Len(AppendText(e, text)) = Len(file) + 1
         /\ \A i \in 1..Len(file) : AppendText(e, text)[i] = file[i]
         /\ AppendText(e, text)[Len(file) + 1] = [ev |-> e, text |-> text]
<1>1. file \in Seq(Line) /\ [ev |-> e, text |-> text] \in Line
  BY DEF TypeOK, Line, Text
<1> QED BY <1>1, AppendProperties DEF AppendText

\* The first line goes, the others move up.
LEMMA HeadRemoved ==
  ASSUME TypeOK, file # <<>>, RemoveHead
  PROVE  /\ file' \in Seq(Line) /\ Len(file') = Len(file) - 1
         /\ \A i \in 1..Len(file') : file'[i] = file[i + 1]
         /\ open' = FALSE
<1>1. file \in Seq(Line)
  BY DEF TypeOK
<1> QED BY <1>1, HeadTailProperties DEF RemoveHead

\* How a file may change while the trade e is written: not at all, by a text
\* joined to the open last line, or by a line of its own.
Written(e) ==
  /\ file' \in Seq(Line)
  /\ \/ UNCHANGED <<file, open>>
     \/ /\ open
        /\ Len(file') = Len(file)
        /\ \A i \in 1..Len(file) : file'[i].ev = file[i].ev
        /\ \A i \in 1..Len(file) : i # Len(file) => file'[i] = file[i]
     \/ /\ ~open
        /\ Len(file') = Len(file) + 1
        /\ \A i \in 1..Len(file) : file'[i] = file[i]
        /\ file'[Len(file) + 1].ev = e

LEMMA AppendTextWrites ==
  ASSUME TypeOK, NEW e \in Event, NEW text \in Text, file' = AppendText(e, text)
  PROVE  Written(e) /\ file' # <<>>
<1>1. CASE open
  <2>1. file # <<>> /\ file \in Seq(Line)
    BY <1>1 DEF TypeOK
  <2>2. Len(file) # 0
    BY <2>1, EmptySeq
  <2>3. Len(file') # 0
    BY <1>1, <2>2, JoinedText
  <2> QED BY <1>1, <2>3, JoinedText DEF Written
<1>2. CASE ~open
  <2>1. Len(file) \in Nat
    BY DEF TypeOK
  <2>2. /\ file' \in Seq(Line) /\ Len(file') = Len(file) + 1
        /\ \A i \in 1..Len(file) : file'[i] = file[i]
        /\ file'[Len(file) + 1] = [ev |-> e, text |-> text]
    BY <1>2, OwnText, Zenon
  <2>3. file'[Len(file) + 1].ev = e /\ file' # <<>>
    BY <2>1, <2>2
  <2> QED BY <1>2, <2>2, <2>3 DEF Written
<1> QED BY <1>1, <1>2

LEMMA TornWrites ==
  ASSUME TypeOK, NEW e \in Event, NEW w \in Writes, Torn(e, w)
  PROVE  Written(e) /\ open' \in BOOLEAN /\ (open' => file' # <<>>)
<1>1. w \in {"nothing", "part", "split", "body", "line"}
  BY HelperQueueAssumption
<1>2. CASE w = "nothing"
  BY <1>2 DEF Torn, Written, TypeOK
<1>3. CASE w # "nothing"
  <2>1. PICK text \in Text : file' = AppendText(e, text)
    BY <1>1, <1>3 DEF Torn, Text
  <2>2. open' \in BOOLEAN
    BY <1>1, <1>3 DEF Torn
  <2> QED BY <2>1, <2>2, AppendTextWrites
<1> QED BY <1>2, <1>3

----------------------------------------------------------------------------
(* The invariant over a write.                                             *)

\* The lines of pushed trades survive every write: the open line is not theirs.
LEMMA LinesKept ==
  ASSUME IInv, NEW e \in Event, Written(e), NEW d \in pushed, InFile(d)
  PROVE  InFile(d)'
<1>1. PICK i \in 1..Len(file) : file[i] = [ev |-> d, text |-> "whole"]
  BY DEF InFile
<1>2. Len(file) \in Nat
  BY DEF IInv, TypeOK
<1>3. Len(file') \in Nat /\ Len(file) <= Len(file')
  BY <1>2 DEF Written
<1>4. file'[i] = file[i]
  <2>1. CASE open
    <3>1. file[Len(file)].ev # d
      BY <2>1 DEF IInv, OpenLineIsUnpushed
    <3>2. i # Len(file)
      BY <1>1, <3>1
    <3> QED BY <2>1, <3>2 DEF Written
  <2>2. CASE ~open
    BY <2>2 DEF Written
  <2> QED BY <2>1, <2>2
<1> QED BY <1>1, <1>2, <1>3, <1>4 DEF InFile

\* A trade that was retried, or is no earlier than what is queued, may be written.
LEMMA OrderKept ==
  ASSUME IInv, NEW e \in Event, Written(e), retried \subseteq retried',
         e \in retried' \/ \A i \in 1..Len(file) : file[i].ev <= e
  PROVE  OnlyRetriedAreOvertaken'
<1>1. /\ Len(file) \in Nat /\ Len(file') \in {Len(file), Len(file) + 1}
      /\ \A i \in 1..Len(file) : file'[i].ev = file[i].ev
      /\ Len(file') = Len(file) + 1 => file'[Len(file) + 1].ev = e
  BY DEF IInv, TypeOK, Written
<1>2. \A i \in 1..Len(file') : file'[i].ev \in Int
  <2>1. \A i \in 1..Len(file') : file'[i] \in Line
    BY DEF Written
  <2> QED BY <2>1 DEF Line, Event
<1>3. ASSUME NEW i \in 1..Len(file'), NEW j \in 1..Len(file'), i < j, file'[i].ev > file'[j].ev
      PROVE  file'[j].ev \in retried'
  <2>1. CASE j \in 1..Len(file)
    <3>1. i \in 1..Len(file)
      BY <1>1, <1>3, <2>1
    <3> QED BY <1>1, <1>3, <2>1, <3>1 DEF IInv, TradesKeepTheirPlace, OnlyRetriedAreOvertaken
  <2>2. CASE j \notin 1..Len(file)
    <3>1. j = Len(file) + 1 /\ file'[j].ev = e /\ i \in 1..Len(file)
      BY <1>1, <1>3, <2>2
    <3>2. file'[i].ev = file[i].ev /\ file'[i].ev \in Int /\ e \in Int
      BY <1>1, <1>2, <3>1 DEF Event
    <3> QED BY <1>3, <3>1, <3>2
  <2> QED BY <2>1, <2>2
<1> QED BY <1>3 DEF OnlyRetriedAreOvertaken

\* What is known of the trade that is written next, and of those behind it.
LEMMA NextWaiting ==
  ASSUME IInv, pending # <<>>
  PROVE  /\ Head(pending) \in Event /\ Head(pending) = pending[1]
         /\ Head(pending) \notin pushed /\ Head(pending) <= seen
         /\ Head(pending) \in retried \/ \A i \in 1..Len(file) : file[i].ev <= Head(pending)
         /\ Tail(pending) \in Seq(Event) /\ Len(Tail(pending)) = Len(pending) - 1
         /\ Len(pending) \in Nat \ {0}
         /\ \A k \in 1..Len(Tail(pending)) :
              k + 1 \in 1..Len(pending) /\ Tail(pending)[k] = pending[k + 1]
<1>1. pending \in Seq(Event) /\ Len(pending) \in Nat \ {0}
  BY EmptySeq DEF IInv, TypeOK
<1>2. /\ Head(pending) \in Event /\ Head(pending) = pending[1] /\ Tail(pending) \in Seq(Event)
      /\ Len(Tail(pending)) = Len(pending) - 1
      /\ \A k \in 1..Len(Tail(pending)) : Tail(pending)[k] = pending[k + 1]
  BY <1>1, HeadTailProperties
<1>3. 1 \in 1..Len(pending)
  BY <1>1
<1>4. Head(pending) \notin pushed /\ Head(pending) <= seen
  BY <1>2, <1>3 DEF IInv, WrittenOnce, SeenFirst
<1>5. Head(pending) \in retried \/ \A i \in 1..Len(file) : file[i].ev <= Head(pending)
  BY <1>2, <1>3 DEF IInv, InOrder
<1> QED BY <1>1, <1>2, <1>4, <1>5

\* After the write the trades behind it still wait in their order, each once.
LEMMA RestWaits ==
  ASSUME IInv, pending # <<>>, pending' = Tail(pending), Written(Head(pending)),
         retried \subseteq retried', UNCHANGED seen
  PROVE  /\ InOrder'
         /\ \A i \in 1..Len(file') : file'[i].ev <= seen'
         /\ \A k \in 1..Len(pending') : pending'[k] <= seen' /\ pending'[k] # Head(pending)
         /\ \A k, l \in 1..Len(pending') : pending'[k] = pending'[l] => k = l
<1> DEFINE e == Head(pending)
<1>1. /\ e \in Event /\ e = pending[1] /\ e <= seen
      /\ Len(pending) \in Nat \ {0} /\ Len(pending') = Len(pending) - 1
      /\ \A k \in 1..Len(pending') : k + 1 \in 1..Len(pending) /\ pending'[k] = pending[k + 1]
  BY NextWaiting
<1>2. /\ Len(file) \in Nat /\ Len(file') \in {Len(file), Len(file) + 1}
      /\ \A i \in 1..Len(file) : file'[i].ev = file[i].ev
      /\ Len(file') = Len(file) + 1 => file'[Len(file) + 1].ev = e
  BY DEF IInv, TypeOK, Written
<1> HIDE DEF e
<1>3. \A i \in 1..Len(file') :
        \/ i \in 1..Len(file) /\ file'[i].ev = file[i].ev
        \/ file'[i].ev = e
  BY <1>2
<1>4. \A i \in 1..Len(file') : file'[i].ev <= seen'
  BY <1>1, <1>3 DEF IInv, SeenFirst
<1>5. \A k \in 1..Len(pending') : pending'[k] <= seen' /\ pending'[k] # e
  <2> TAKE k \in 1..Len(pending')
  <2>1. k + 1 \in 1..Len(pending) /\ pending'[k] = pending[k + 1] /\ 1 \in 1..Len(pending) /\ k + 1 # 1
    BY <1>1
  <2> QED BY <1>1, <2>1 DEF IInv, SeenFirst, WrittenOnce
<1>6. \A k, l \in 1..Len(pending') : pending'[k] = pending'[l] => k = l
  <2> TAKE k, l \in 1..Len(pending')
  <2> HAVE pending'[k] = pending'[l]
  <2>1. k + 1 = l + 1
    BY <1>1 DEF IInv, WrittenOnce
  <2> QED BY <1>1, <2>1
<1>7. InOrder'
  <2> SUFFICES ASSUME NEW k \in 1..Len(pending'), pending'[k] \notin retried'
               PROVE  /\ \A i \in 1..Len(file') : file'[i].ev <= pending'[k]
                      /\ \A l \in 1..(k - 1) : pending'[l] <= pending'[k]
    BY DEF InOrder
  <2>1. k + 1 \in 1..Len(pending) /\ pending[k + 1] = pending'[k] /\ pending[k + 1] \notin retried
    BY <1>1
  <2>2. /\ \A i \in 1..Len(file) : file[i].ev <= pending[k + 1]
        /\ \A l \in 1..((k + 1) - 1) : pending[l] <= pending[k + 1]
    BY <2>1 DEF IInv, InOrder
  <2>3. e <= pending'[k]
    <3>1. 1 \in 1..((k + 1) - 1)
      BY <1>1
    <3> QED BY <1>1, <2>1, <2>2, <3>1
  <2>4. \A i \in 1..Len(file') : file'[i].ev <= pending'[k]
    BY <1>3, <2>1, <2>2, <2>3
  <2>5. ASSUME NEW l \in 1..(k - 1) PROVE pending'[l] <= pending'[k]
    <3>1. l \in 1..Len(pending') /\ l + 1 \in 1..((k + 1) - 1)
      BY <1>1
    <3>2. pending'[l] = pending[l + 1]
      BY <1>1, <3>1
    <3> QED BY <2>1, <2>2, <3>1, <3>2
  <2> QED BY <2>4, <2>5
<1> QED BY <1>4, <1>5, <1>6, <1>7 DEF e

----------------------------------------------------------------------------
(* The steps that write.                                                   *)

LEMMA PushIInv ==
  ASSUME IInv, Push
  PROVE  IInv'
<1> DEFINE e == Head(pending)
<1>1. /\ pending # <<>> /\ file' = AppendText(e, "whole") /\ open' = FALSE
      /\ pushed' = pushed \cup {e} /\ pending' = Tail(pending)
      /\ joined' = IF open THEN joined \cup {e} ELSE joined
      /\ hpc' = "persist" /\ UNCHANGED <<seen, kept, backoff, settled, retried, io>>
  BY DEF Push
<1>2. e \in Event /\ e \notin pushed /\ e <= seen /\ Tail(pending) \in Seq(Event)
      /\ (e \in retried \/ \A i \in 1..Len(file) : file[i].ev <= e)
  BY <1>1, NextWaiting
<1>3. Written(e) /\ file' # <<>>
  BY <1>1, <1>2, AppendTextWrites DEF Text, IInv
<1>4. TypeOK'
  BY <1>1, <1>2, <1>3 DEF IInv, TypeOK, Written
<1>5. InOrder' /\ SeenFirst' /\ WrittenOnce'
  <2>1. /\ InOrder'
        /\ \A i \in 1..Len(file') : file'[i].ev <= seen'
        /\ \A k \in 1..Len(pending') : pending'[k] <= seen' /\ pending'[k] # e
        /\ \A k, l \in 1..Len(pending') : pending'[k] = pending'[l] => k = l
    BY <1>1, <1>3, RestWaits
  <2>2. \A k \in 1..Len(pending') : \E m \in 1..Len(pending) : pending'[k] = pending[m]
    BY <1>1, NextWaiting
  <2>3. \A l \in 1..Len(kept) : kept[l] # e
    <3>1. 1 \in 1..Len(pending) /\ e = pending[1]
      BY <1>1, NextWaiting
    <3> QED BY <3>1 DEF IInv, WrittenOnce
  <2> HIDE DEF e
  <2>4. SeenFirst'
    BY <1>1, <1>2, <2>1 DEF IInv, SeenFirst
  <2>5. WrittenOnce'
    BY <1>1, <2>1, <2>2, <2>3 DEF IInv, WrittenOnce
  <2> QED BY <2>1, <2>4, <2>5
<1>6. OnlyRetriedAreOvertaken'
  BY <1>1, <1>2, <1>3, OrderKept
<1>7. OwnLinesWait'
  <2> SUFFICES ASSUME NEW d \in pushed', d \notin settled', d \notin joined'
               PROVE  InFile(d)'
    BY DEF OwnLinesWait
  <2>1. CASE d \in pushed
    <3>1. InFile(d)
      BY <1>1, <2>1 DEF IInv, TradesKeepTheirPlace, OwnLinesWait
    <3> QED BY <1>2, <1>3, <2>1, <3>1, LinesKept
  <2>2. CASE d = e /\ ~open
    <3>1. Len(file') = Len(file) + 1 /\ file'[Len(file) + 1] = [ev |-> d, text |-> "whole"]
      BY <1>1, <1>2, <2>2, OwnText DEF IInv, Text
    <3>2. Len(file) \in Nat
      BY DEF IInv, TypeOK
    <3> QED BY <3>1, <3>2 DEF InFile
  <2> QED BY <1>1, <2>1, <2>2
<1>8. OpenLineIsUnpushed' /\ PoppedIsSettled'
  BY <1>1 DEF OpenLineIsUnpushed, PoppedIsSettled
<1> QED BY <1>4, <1>5, <1>6, <1>7, <1>8 DEF IInv, TradesKeepTheirPlace

\* After a torn write the open line is that of the trade, or was open before.
LEMMA TornLineIsUnpushed ==
  ASSUME IInv, NEW e \in Event, e \notin pushed, Written(e), pushed' = pushed
  PROVE  OpenLineIsUnpushed'
<1>1. Len(file) \in Nat /\ (open => Len(file) \in 1..Len(file))
  BY EmptySeq DEF IInv, TypeOK
<1> QED BY <1>1 DEF Written, IInv, OpenLineIsUnpushed

LEMMA PushFailsIInv ==
  ASSUME IInv, PushFails
  PROVE  IInv'
<1> DEFINE e == Head(pending)
<1>1. PICK w \in Writes : Torn(e, w)
  BY DEF PushFails
<1>2. /\ pending # <<>> /\ hpc = "persist" /\ pending' = Tail(pending)
      /\ kept' = Append(kept, e) /\ retried' = retried \cup {e}
      /\ io < MaxIo /\ io' = io + 1
      /\ UNCHANGED <<hpc, seen, backoff, pushed, settled, joined>>
  BY DEF PushFails, Fault
<1>3. e \in Event /\ e \notin pushed /\ e <= seen /\ Tail(pending) \in Seq(Event)
  BY <1>2, NextWaiting
<1>4. Written(e) /\ open' \in BOOLEAN /\ (open' => file' # <<>>)
  BY <1>1, <1>3, TornWrites DEF IInv
<1>5. /\ kept' \in Seq(Event) /\ Len(kept') = Len(kept) + 1 /\ Len(kept) \in Nat
      /\ \A l \in 1..Len(kept) : kept'[l] = kept[l]
      /\ kept'[Len(kept) + 1] = e
  BY <1>2, <1>3, AppendProperties DEF IInv, TypeOK
<1>6. TypeOK'
  BY <1>2, <1>3, <1>4, <1>5, HelperQueueAssumption DEF IInv, TypeOK, Written
<1>7. InOrder' /\ SeenFirst' /\ WrittenOnce'
  <2>1. /\ InOrder'
        /\ \A i \in 1..Len(file') : file'[i].ev <= seen'
        /\ \A k \in 1..Len(pending') : pending'[k] <= seen' /\ pending'[k] # e
        /\ \A k, l \in 1..Len(pending') : pending'[k] = pending'[l] => k = l
    BY <1>2, <1>4, RestWaits
  <2>2. \A k \in 1..Len(pending') : \E m \in 1..Len(pending) : pending'[k] = pending[m]
    BY <1>2, NextWaiting
  <2>3. \A l \in 1..Len(kept) : kept[l] # e
    <3>1. 1 \in 1..Len(pending) /\ e = pending[1]
      BY <1>2, NextWaiting
    <3> QED BY <3>1 DEF IInv, WrittenOnce
  <2> HIDE DEF e
  <2>4. \A l \in 1..Len(kept') : (l \in 1..Len(kept) /\ kept'[l] = kept[l]) \/ (l = Len(kept) + 1 /\ kept'[l] = e)
    BY <1>5
  <2>5. SeenFirst'
    BY <1>2, <1>3, <2>1, <2>4 DEF IInv, SeenFirst
  <2>6. WrittenOnce'
    <3>1. \A k, l \in 1..Len(kept') : kept'[k] = kept'[l] => k = l
      BY <2>3, <2>4 DEF IInv, WrittenOnce
    <3>2. ASSUME NEW k \in 1..Len(pending'), NEW l \in 1..Len(kept')
          PROVE  pending'[k] # kept'[l]
      <4>1. CASE l \in 1..Len(kept) /\ kept'[l] = kept[l]
        BY <2>2, <4>1 DEF IInv, WrittenOnce
      <4> QED BY <2>1, <2>4, <4>1
    <3>3. /\ \A k \in 1..Len(pending') : pending'[k] \notin pushed'
          /\ \A k \in 1..Len(kept') : kept'[k] \notin pushed'
      BY <1>2, <1>3, <2>2, <2>4 DEF IInv, WrittenOnce
    <3> QED BY <2>1, <3>1, <3>2, <3>3 DEF WrittenOnce
  <2> QED BY <2>1, <2>5, <2>6
<1>8. OnlyRetriedAreOvertaken'
  BY <1>2, <1>3, <1>4, OrderKept
<1>9. OwnLinesWait'
  BY <1>2, <1>3, <1>4, LinesKept DEF IInv, TradesKeepTheirPlace, OwnLinesWait
<1>10. OpenLineIsUnpushed' /\ PoppedIsSettled'
  BY <1>2, <1>3, <1>4, TornLineIsUnpushed DEF PoppedIsSettled
<1> QED BY <1>6, <1>7, <1>8, <1>9, <1>10 DEF IInv, TradesKeepTheirPlace

LEMMA CrashIInv ==
  ASSUME IInv, Crash
  PROVE  IInv'
<1>1. /\ hpc' = "down" /\ backoff' = FALSE
      /\ io < MaxIo /\ io' = io + 1
      /\ UNCHANGED <<seen, pushed, settled, joined, retried>>
  BY DEF Crash, Fault, histVars
<1>2. /\ Len(pending') = 0 /\ Len(kept') = 0
      /\ pending' \in Seq(Event) /\ kept' \in Seq(Event)
  BY EmptySeq DEF Crash
<1>3. /\ seen' \in 0..NEvents /\ io' \in 0..MaxIo
      /\ \A h \in {pushed', settled', joined', retried'} : h \subseteq Event
  BY <1>1, HelperQueueAssumption DEF IInv, TypeOK
<1>4. CASE UNCHANGED <<file, open>>
  <2>1. file' \in Seq(Line) /\ open' \in BOOLEAN /\ (open' => file' # <<>>)
    BY <1>4 DEF IInv, TypeOK
  <2>2. TypeOK'
    BY <1>1, <1>2, <1>3, <2>1 DEF TypeOK
  <2> QED BY <1>1, <1>2, <1>4, <2>2
      DEF IInv, SeenFirst, WrittenOnce, InOrder, OpenLineIsUnpushed, PoppedIsSettled,
          TradesKeepTheirPlace, OwnLinesWait, OnlyRetriedAreOvertaken, InFile
<1>5. CASE pending # <<>> /\ \E w \in Writes : Torn(Head(pending), w)
  <2> DEFINE e == Head(pending)
  <2>1. /\ e \in Event /\ e \notin pushed /\ e <= seen
        /\ e \in retried \/ \A i \in 1..Len(file) : file[i].ev <= e
    BY <1>5, NextWaiting
  <2>2. Written(e) /\ open' \in BOOLEAN /\ (open' => file' # <<>>)
    BY <1>5, <2>1, TornWrites DEF IInv
  <2> HIDE DEF e
  <2>3. TypeOK'
    <3>1. file' \in Seq(Line)
      BY <2>2 DEF Written
    <3> QED BY <1>1, <1>2, <1>3, <2>2, <3>1 DEF TypeOK
  <2>4. SeenFirst'
    <3>1. Len(file) \in Nat /\ \A i \in 1..Len(file) : file[i].ev <= seen
      BY DEF IInv, TypeOK, SeenFirst
    <3>2. \A i \in 1..Len(file') :
            \/ i \in 1..Len(file) /\ file'[i].ev = file[i].ev
            \/ file'[i].ev = e
      BY <2>2, <3>1 DEF Written
    <3>3. \A i \in 1..Len(file') : file'[i].ev <= seen
      BY <2>1, <3>1, <3>2
    <3> QED BY <1>1, <1>2, <3>3 DEF IInv, SeenFirst
  <2>5. WrittenOnce' /\ InOrder' /\ PoppedIsSettled'
    BY <1>1, <1>2 DEF WrittenOnce, InOrder, PoppedIsSettled
  <2>6. OpenLineIsUnpushed' /\ OnlyRetriedAreOvertaken'
    BY <1>1, <2>1, <2>2, TornLineIsUnpushed, OrderKept
  <2>7. OwnLinesWait'
    BY <1>1, <2>1, <2>2, LinesKept DEF IInv, TradesKeepTheirPlace, OwnLinesWait
  <2> QED BY <2>3, <2>4, <2>5, <2>6, <2>7 DEF IInv, TradesKeepTheirPlace
<1> QED BY <1>4, <1>5 DEF Crash

----------------------------------------------------------------------------
(* The steps that do not write.                                            *)

\* SeenFirst over integers.
LEMMA SeenBounds ==
  ASSUME IInv
  PROVE  /\ seen \in Int
         /\ \A i \in 1..Len(file) : file[i].ev \in Int /\ file[i].ev <= seen
         /\ \A k \in 1..Len(pending) : pending[k] \in Int /\ pending[k] <= seen
         /\ \A k \in 1..Len(kept) : kept[k] \in Int /\ kept[k] <= seen /\ kept[k] \in retried
         /\ \A d \in pushed : d \in Int /\ d <= seen
<1>1. /\ file \in Seq(Line) /\ pending \in Seq(Event) /\ kept \in Seq(Event)
      /\ pushed \subseteq Event /\ seen \in 0..NEvents
  BY DEF IInv, TypeOK
<1>2. /\ \A i \in 1..Len(file) : file[i] \in Line
      /\ \A k \in 1..Len(pending) : pending[k] \in Event
      /\ \A k \in 1..Len(kept) : kept[k] \in Event
  BY <1>1, ElementOfSeq
<1>3. \A i \in 1..Len(file) : file[i].ev \in Event
  BY <1>2 DEF Line
<1> QED BY <1>1, <1>2, <1>3 DEF IInv, SeenFirst, Event

LEMMA PollIInv ==
  ASSUME IInv, Poll
  PROVE  IInv'
<1>1. PICK last \in seen..NEvents :
        /\ pending' = pending \o [i \in 1..(last - seen) |-> seen + i]
        /\ seen' = last
  BY DEF Poll
<1> DEFINE new == [i \in 1..(last - seen) |-> seen + i]
<1>2. hpc = "poll" /\ hpc' = "persist" /\ UNCHANGED <<kept, file, open, backoff, histVars, io>>
  BY DEF Poll
<1>3. seen \in 0..NEvents /\ last \in Nat /\ last - seen \in Nat /\ seen <= last
  BY HelperQueueAssumption DEF IInv, TypeOK
<1>4. new \in Seq(Event) /\ Len(new) = last - seen /\ pending \in Seq(Event)
  <2>1. new \in [1..(last - seen) -> Event]
    BY <1>3, HelperQueueAssumption DEF Event
  <2>2. new \in Seq(Event)
    BY <1>3, <2>1
  <2>3. Len(new) = last - seen
    BY <1>3, <2>1, <2>2, LenProperties
  <2> QED BY <2>2, <2>3 DEF IInv, TypeOK
<1>5. /\ pending' \in Seq(Event) /\ Len(pending') = Len(pending) + (last - seen)
      /\ Len(pending) \in Nat
      /\ \A k \in 1..Len(pending) : pending'[k] = pending[k]
      /\ \A k \in 1..Len(pending') : k > Len(pending) => pending'[k] = seen + (k - Len(pending))
  <2> HIDE DEF new
  <2>1. pending' = pending \o new
    BY <1>1 DEF new
  <2>2. \A k \in 1..(last - seen) : new[k] = seen + k
    BY DEF new
  <2>3. /\ pending' \in Seq(Event) /\ Len(pending') = Len(pending) + (last - seen)
        /\ Len(pending) \in Nat
        /\ \A k \in 1..(Len(pending) + (last - seen)) :
             pending'[k] = IF k <= Len(pending) THEN pending[k] ELSE new[k - Len(pending)]
    BY <1>4, <2>1, ConcatProperties
  <2>4. \A k \in 1..Len(pending) : pending'[k] = pending[k]
    BY <1>3, <2>3
  <2>5. \A k \in 1..Len(pending') : k > Len(pending) => pending'[k] = seen + (k - Len(pending))
    BY <1>3, <2>2, <2>3
  <2> QED BY <2>3, <2>4, <2>5
<1> HIDE DEF new
<1>6. TypeOK'
  BY <1>1, <1>2, <1>3, <1>5, HelperQueueAssumption DEF IInv, TypeOK, histVars
<1>7. \A k \in 1..Len(pending') :
        \/ k \in 1..Len(pending) /\ pending'[k] = pending[k]
        \/ k > Len(pending) /\ pending'[k] > seen /\ pending'[k] <= last
  BY <1>3, <1>5
<1>8. SeenFirst'
  <2>1. \A i \in 1..Len(file) : file[i].ev <= last
    BY <1>3, SeenBounds
  <2>2. \A k \in 1..Len(pending') : pending'[k] <= last
    BY <1>3, <1>7, SeenBounds
  <2>3. \A k \in 1..Len(kept) : kept[k] <= last /\ kept[k] \in retried
    BY <1>3, SeenBounds
  <2>4. \A d \in pushed : d <= last
    BY <1>3, SeenBounds
  <2> QED BY <1>1, <1>2, <2>1, <2>2, <2>3, <2>4 DEF SeenFirst, histVars
<1>9. WrittenOnce'
  <2>1. \A k \in 1..Len(pending) : pending[k] \in Int /\ pending[k] <= seen
    BY SeenBounds
  <2>2. ASSUME NEW k \in 1..Len(pending'), NEW l \in 1..Len(pending'), pending'[k] = pending'[l]
        PROVE  k = l
    <3>1. CASE k \in 1..Len(pending) /\ l \in 1..Len(pending)
      BY <1>5, <2>2, <3>1 DEF IInv, WrittenOnce
    <3>2. CASE k > Len(pending) /\ l > Len(pending)
      BY <1>3, <1>5, <2>2, <3>2
    <3>3. CASE k \in 1..Len(pending) /\ l > Len(pending)
      BY <1>3, <1>5, <2>1, <2>2, <3>3
    <3>4. CASE l \in 1..Len(pending) /\ k > Len(pending)
      BY <1>3, <1>5, <2>1, <2>2, <3>4
    <3> QED BY <1>7, <3>1, <3>2, <3>3, <3>4
  <2>3. ASSUME NEW k \in 1..Len(pending')
        PROVE  pending'[k] \notin pushed /\ \A l \in 1..Len(kept) : pending'[k] # kept[l]
    <3>1. CASE k \in 1..Len(pending)
      BY <1>5, <3>1 DEF IInv, WrittenOnce
    <3>2. CASE pending'[k] > seen
      <4>1. seen \in Int /\ \A l \in 1..Len(kept) : kept[l] \in Int /\ kept[l] <= seen
        BY SeenBounds
      <4> QED BY <1>3, <3>2, <4>1, SeenBounds
    <3> QED BY <1>7, <3>1, <3>2
  <2> QED BY <1>2, <2>2, <2>3 DEF IInv, WrittenOnce, histVars
<1>10. InOrder'
  <2> SUFFICES ASSUME NEW k \in 1..Len(pending'), pending'[k] \notin retried'
               PROVE  /\ \A i \in 1..Len(file') : file'[i].ev <= pending'[k]
                      /\ \A l \in 1..(k - 1) : pending'[l] <= pending'[k]
    BY DEF InOrder
  <2>1. CASE k \in 1..Len(pending)
    <3>1. /\ \A i \in 1..Len(file) : file[i].ev <= pending[k]
          /\ \A l \in 1..(k - 1) : pending[l] <= pending[k]
      BY <1>2, <1>5, <2>1 DEF IInv, InOrder, histVars
    <3>2. \A l \in 1..(k - 1) : l \in 1..Len(pending)
      BY <1>5, <2>1
    <3> QED BY <1>2, <1>5, <2>1, <3>1, <3>2
  <2>2. CASE k > Len(pending)
    <3>1. pending'[k] = seen + (k - Len(pending)) /\ k \in Int
      BY <1>5, <2>2
    <3>2. \A i \in 1..Len(file) : file[i].ev \in Int /\ file[i].ev <= seen
      BY SeenBounds
    <3>3. \A i \in 1..Len(file) : file[i].ev <= pending'[k]
      BY <1>3, <1>5, <2>2, <3>1, <3>2
    <3>4. ASSUME NEW l \in 1..(k - 1) PROVE pending'[l] <= pending'[k]
      <4>1. l \in 1..Len(pending')
        BY <1>5
      <4>2. CASE l > Len(pending)
        BY <1>3, <1>5, <2>2, <3>1, <4>1, <4>2
      <4>3. CASE l \in 1..Len(pending)
        <5>1. pending'[l] \in Int /\ pending'[l] <= seen
          BY <1>5, <4>3, SeenBounds
        <5> QED BY <1>3, <1>5, <2>2, <3>1, <5>1
      <4> QED BY <1>7, <4>1, <4>2, <4>3
    <3> QED BY <1>2, <3>3, <3>4
  <2> QED BY <1>7, <2>1, <2>2
<1>11. TradesKeepTheirPlace' /\ OpenLineIsUnpushed' /\ PoppedIsSettled'
  BY <1>2 DEF IInv, TradesKeepTheirPlace, OwnLinesWait, OnlyRetriedAreOvertaken, InFile,
              OpenLineIsUnpushed, PoppedIsSettled, histVars
<1> QED BY <1>6, <1>8, <1>9, <1>10, <1>11 DEF IInv

\* The trades kept for another try become those that wait.
LEMMA PersistDoneIInv ==
  ASSUME IInv, PersistDone
  PROVE  IInv'
<1>1. /\ pending' = kept /\ Len(kept') = 0 /\ kept' \in Seq(Event) /\ hpc' = "drain"
      /\ UNCHANGED <<seen, file, open, backoff, histVars, io>>
  BY EmptySeq DEF PersistDone
<1>2. \A k \in 1..Len(kept) : kept[k] \in retried
  BY DEF IInv, SeenFirst
<1>3. TypeOK'
  BY <1>1 DEF IInv, TypeOK, histVars
<1>4. SeenFirst' /\ WrittenOnce' /\ InOrder'
  BY <1>1, <1>2 DEF IInv, SeenFirst, WrittenOnce, InOrder, histVars
<1>5. TradesKeepTheirPlace' /\ OpenLineIsUnpushed' /\ PoppedIsSettled'
  BY <1>1 DEF IInv, TradesKeepTheirPlace, OwnLinesWait, OnlyRetriedAreOvertaken, InFile,
              OpenLineIsUnpushed, PoppedIsSettled, histVars
<1> QED BY <1>3, <1>4, <1>5 DEF IInv

\* The steps that only move the loop on, look ahead, or take an answer.
LEMMA MoveOnIInv ==
  ASSUME IInv, UNCHANGED <<pending, kept, file, open, pushed, joined, retried>>,
         hpc' \in {"poll", "sending", "pop"}, hpc' # "poll" => file # <<>>,
         seen' \in seen..NEvents, backoff' \in BOOLEAN, io' \in 0..MaxIo,
         settled' \in SUBSET Event, settled \subseteq settled',
         hpc' = "pop" => file[1].ev \in settled'
  PROVE  IInv'
<1>1. TypeOK'
  BY HelperQueueAssumption DEF IInv, TypeOK
<1>2. SeenFirst'
  <2>1. seen \in Int /\ seen' \in Int /\ seen <= seen'
    BY HelperQueueAssumption DEF IInv, TypeOK
  <2>2. \A i \in 1..Len(file) : file[i].ev <= seen'
    BY <2>1, SeenBounds
  <2>3. \A k \in 1..Len(pending) : pending[k] <= seen'
    BY <2>1, SeenBounds
  <2>4. \A k \in 1..Len(kept) : kept[k] <= seen' /\ kept[k] \in retried
    BY <2>1, SeenBounds
  <2>5. \A d \in pushed : d <= seen'
    BY <2>1, SeenBounds
  <2> QED BY <2>2, <2>3, <2>4, <2>5 DEF SeenFirst
<1>3. WrittenOnce' /\ InOrder' /\ TradesKeepTheirPlace' /\ OpenLineIsUnpushed'
  BY DEF IInv, WrittenOnce, InOrder, TradesKeepTheirPlace, OwnLinesWait,
         OnlyRetriedAreOvertaken, InFile, OpenLineIsUnpushed
<1> QED BY <1>1, <1>2, <1>3 DEF IInv, PoppedIsSettled

LEMMA LoopMovesIInv ==
  ASSUME IInv, SkipDrain \/ Peek \/ QueueError \/ StartAtEnd
                 \/ (\E answer \in {"accepted", "dropped", "rejected", "failed"} : Outcome(answer))
  PROVE  IInv'
<1>1. /\ seen \in 0..NEvents /\ seen \in seen..NEvents /\ io \in 0..MaxIo
      /\ settled \in SUBSET Event /\ file \in Seq(Line) /\ backoff \in BOOLEAN
  BY HelperQueueAssumption DEF IInv, TypeOK
<1>2. CASE SkipDrain
  BY <1>1, <1>2, MoveOnIInv DEF SkipDrain, histVars
<1>3. CASE Peek
  BY <1>1, <1>3, MoveOnIInv DEF Peek, BackOff, histVars
<1>4. CASE QueueError
  <2>1. io' \in 0..MaxIo
    BY <1>1, <1>4, HelperQueueAssumption DEF QueueError, Fault
  <2> QED BY <1>1, <1>4, <2>1, MoveOnIInv DEF QueueError, BackOff, histVars
<1>5. CASE StartAtEnd
  BY <1>1, <1>5, MoveOnIInv DEF StartAtEnd, histVars
<1>6. ASSUME NEW answer, Outcome(answer) PROVE IInv'
  <2>1. file # <<>> /\ file[1].ev \in Event
    <3>1. file # <<>>
      BY <1>6 DEF IInv, TypeOK, Outcome
    <3>2. file[1] \in Line
      BY <1>1, <3>1, EmptySeq
    <3> QED BY <3>1, <3>2 DEF Line
  <2> QED BY <1>1, <1>6, <2>1, MoveOnIInv DEF Outcome, BackOff
<1> QED BY <1>2, <1>3, <1>4, <1>5, <1>6

\* The first line leaves: it is corrupt, or its trade is settled.
LEMMA RemoveHeadIInv ==
  ASSUME IInv, DropCorrupt \/ Pop
  PROVE  IInv'
<1>1. /\ file # <<>> /\ RemoveHead /\ hpc' = "drain"
      /\ file[1].text = "whole" => file[1].ev \in settled
      /\ backoff' \in BOOLEAN
      /\ UNCHANGED <<seen, pending, kept, histVars, io>>
  BY DEF DropCorrupt, Pop, IInv, TypeOK, PoppedIsSettled
<1>2. /\ file' \in Seq(Line) /\ Len(file') = Len(file) - 1 /\ open' = FALSE
      /\ \A i \in 1..Len(file') : file'[i] = file[i + 1]
  BY <1>1, HeadRemoved DEF IInv
<1>3. Len(file) \in Nat /\ \A i \in 1..Len(file') : i + 1 \in 1..Len(file)
  BY <1>2 DEF IInv, TypeOK
<1>4. TypeOK'
  BY <1>1, <1>2 DEF IInv, TypeOK, histVars
<1>5. SeenFirst' /\ InOrder'
  BY <1>1, <1>2, <1>3 DEF IInv, SeenFirst, InOrder, histVars
<1>6. WrittenOnce' /\ OpenLineIsUnpushed' /\ PoppedIsSettled'
  BY <1>1, <1>2 DEF IInv, WrittenOnce, OpenLineIsUnpushed, PoppedIsSettled, histVars
<1>7. OnlyRetriedAreOvertaken'
  <2> SUFFICES ASSUME NEW i \in 1..Len(file'), NEW j \in 1..Len(file'),
                      i < j, file'[i].ev > file'[j].ev
               PROVE  file'[j].ev \in retried'
    BY DEF OnlyRetriedAreOvertaken
  <2>1. i + 1 \in 1..Len(file) /\ j + 1 \in 1..Len(file) /\ i + 1 < j + 1
    BY <1>3
  <2> QED BY <1>1, <1>2, <2>1 DEF IInv, TradesKeepTheirPlace, OnlyRetriedAreOvertaken, histVars
<1>8. OwnLinesWait'
  <2> SUFFICES ASSUME NEW d \in pushed, d \notin settled, d \notin joined PROVE InFile(d)'
    BY <1>1 DEF OwnLinesWait, histVars
  <2>1. PICK i \in 1..Len(file) : file[i] = [ev |-> d, text |-> "whole"]
    BY DEF IInv, TradesKeepTheirPlace, OwnLinesWait, InFile
  <2>2. i # 1
    BY <1>1, <2>1
  <2>3. i - 1 \in 1..Len(file') /\ file'[i - 1] = file[i]
    BY <1>2, <1>3, <2>2
  <2> QED BY <2>1, <2>3 DEF InFile
<1> QED BY <1>4, <1>5, <1>6, <1>7, <1>8 DEF IInv, TradesKeepTheirPlace

----------------------------------------------------------------------------
(* The theorems.                                                           *)

LEMMA InitIInv == Init => IInv
<1> SUFFICES ASSUME Init PROVE IInv
  OBVIOUS
<1>1. /\ file \in Seq(Line) /\ pending \in Seq(Event) /\ kept \in Seq(Event)
      /\ Len(file) = 0 /\ Len(pending) = 0 /\ Len(kept) = 0
  BY EmptySeq DEF Init
<1>2. TypeOK
  <2>1. /\ hpc = "poll" /\ seen = 0 /\ open = FALSE /\ backoff = FALSE /\ io = 0
        /\ pushed = {} /\ settled = {} /\ joined = {} /\ retried = {}
    BY DEF Init
  <2>2. seen \in 0..NEvents /\ io \in 0..MaxIo
    BY <2>1, HelperQueueAssumption
  <2> QED BY <1>1, <2>1, <2>2 DEF TypeOK
<1> QED BY <1>1, <1>2
    DEF Init, IInv, SeenFirst, WrittenOnce, InOrder, OpenLineIsUnpushed, PoppedIsSettled,
        TradesKeepTheirPlace, OwnLinesWait, OnlyRetriedAreOvertaken

LEMMA NextIInv == IInv /\ [Next]_vars => IInv'
<1> SUFFICES ASSUME IInv, [Next]_vars PROVE IInv'
  OBVIOUS
<1>1. CASE LoopStep
  BY <1>1, PollIInv, PushIInv, PersistDoneIInv, LoopMovesIInv, RemoveHeadIInv DEF LoopStep
<1>2. CASE FileFault
  BY <1>2, PushFailsIInv, LoopMovesIInv DEF FileFault
<1>3. CASE Crash
  BY <1>3, CrashIInv
<1>4. CASE \E answer \in {"accepted", "dropped", "rejected", "failed"} : Outcome(answer)
  BY <1>4, LoopMovesIInv
<1>5. CASE UNCHANGED vars
  BY <1>5 DEF vars, histVars, IInv, TypeOK, SeenFirst, WrittenOnce, InOrder, OpenLineIsUnpushed,
     PoppedIsSettled, TradesKeepTheirPlace, OwnLinesWait, OnlyRetriedAreOvertaken, InFile
<1> QED BY <1>1, <1>2, <1>3, <1>4, <1>5 DEF Next

\* The inductive invariant holds in every reachable state.
THEOREM Invariance == Spec => []IInv
<1>1. Init => IInv
  BY InitIInv
<1>2. IInv /\ [Next]_vars => IInv'
  BY NextIInv
<1> QED BY <1>1, <1>2, PTL DEF Spec

\* The loop, the file and the trades that wait keep their types.
THEOREM TypeCorrect == Spec => []TypeOK
<1>1. IInv => TypeOK
  BY DEF IInv
<1> QED BY <1>1, Invariance, PTL

\* Torn writes, failed appends, dropped lines, failed answers and crashes
\* neither lose a trade pushed onto a line of its own before it is settled, nor
\* let a trade that was written at the first try be overtaken.
THEOREM TradesKeepTheirPlaceHolds == Spec => []TradesKeepTheirPlace
<1>1. IInv => TradesKeepTheirPlace
  BY DEF IInv
<1> QED BY <1>1, Invariance, PTL

\* Only the first line ever leaves the file, and a line that parses only after
\* an answer that settles its trade.
THEOREM OnlySettledLinesLeaveHolds == Spec => OnlySettledLinesLeave
<1> DEFINE Leaves == Len(file') < Len(file) =>
                       /\ file' = Tail(file)
                       /\ file[1].text = "whole" => file[1].ev \in settled
<1>1. ASSUME IInv, [Next]_vars PROVE [Leaves]_vars
  <2>1. Len(file) \in Nat
    BY <1>1 DEF IInv, TypeOK
  <2>2. CASE DropCorrupt \/ Pop
    BY <1>1, <2>2 DEF DropCorrupt, Pop, RemoveHead, IInv, PoppedIsSettled
  <2>3. CASE Push
    <3>1. Written(Head(pending))
      BY <1>1, <2>3, NextWaiting, AppendTextWrites DEF Push, IInv, Text
    <3> QED BY <2>1, <3>1 DEF Written
  <2>4. CASE PushFails
    <3>1. Written(Head(pending))
      BY <1>1, <2>4, NextWaiting, TornWrites DEF PushFails, IInv
    <3> QED BY <2>1, <3>1 DEF Written
  <2>5. CASE Crash
    <3>1. CASE UNCHANGED file
      BY <2>1, <3>1
    <3>2. CASE pending # <<>> /\ \E w \in Writes : Torn(Head(pending), w)
      <4>1. Written(Head(pending))
        BY <1>1, <3>2, NextWaiting, TornWrites DEF IInv
      <4> QED BY <2>1, <4>1 DEF Written
    <3> QED BY <2>5, <3>1, <3>2 DEF Crash
  <2>6. CASE UNCHANGED file
    BY <2>1, <2>6
  <2> QED BY <1>1, <2>2, <2>3, <2>4, <2>5, <2>6
      DEF Next, LoopStep, FileFault, Poll, PersistDone, SkipDrain, Peek, StartAtEnd, QueueError,
          Outcome, vars
<1> QED BY <1>1, Invariance, PTL DEF Spec, OnlySettledLinesLeave
=============================================================================
