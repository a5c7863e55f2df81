---------------------------- MODULE ConsoleProofs -----------------------------
(***************************************************************************)
(* Proofs about Console: the ring of klog.c, for every length of the ring, *)
(* every number of cpus and whatever is logged; who draws, for two cpus;   *)
(* and, from both of them, what a frame shows.                             *)
(***************************************************************************)
EXTENDS Console, SequenceTheorems, TLAPS

Induction == INSTANCE TaskQueueProofs

N == KLOG_BUFF_LEN
Slot == 0..N-1

Job == {"task", "display", "panic"}

\* Where a cpu can be in each job.
Place == [job \in Job |->
    CASE job = "task"    -> {"idle", "wait", "put", "halted"}
      [] job = "display" -> {"clear", "wait", "scan", "print", "flush", "halted"}
      [] job = "panic"   -> {"enter", "set", "pit", "next", "wait", "put",
                             "clear", "scan", "print", "flush", "dead"}]

\* What klog.c stores: characters, and the zeroes the ring begins with.
Char == STRING \cup {NUL}

Places == {"idle", "wait", "put", "halted", "clear", "scan", "print", "flush",
           "enter", "set", "pit", "next", "dead"}

CpuType == [job: Job, at: Places, text: Seq(STRING), i: Slot,
            used: Nat, visible: Nat, left: Seq(Seq(STRING))]

TypeOK ==
    /\ log_buff \in [Slot -> Char]
    /\ log_start \in Slot
    /\ log_end \in Slot
    /\ logged \in Seq(Char)
    /\ log_lock \in CPU \cup {NULL}
    /\ panic_lock \in CPU \cup {NULL}
    /\ timer \in {"switch", "halt"}
    /\ cpu \in [CPU -> CpuType]
    /\ saved \in Places \cup {NULL}

-----------------------------------------------------------------------------
(* The 16-bit indices. *)

LEMMA NType == N \in Nat \ {0, 1} /\ Slot \subseteq Nat
BY ConsoleAssumption DEF N, Slot

LEMMA Modulo ==
    ASSUME NEW a \in Nat
    PROVE  /\ a % N \in Slot
           /\ a < N => a % N = a
           /\ a >= N /\ a < 2*N => a % N = a - N
<1>1. N \in Nat \ {0}
  BY NType
<1>2. a % N \in 0..N-1
  BY <1>1
<1>3. ASSUME a < N PROVE a % N = a
  BY <1>1, <1>3
<1>4. ASSUME a >= N, a < 2*N PROVE a % N = a - N
  BY <1>1, <1>4
<1> QED BY <1>2, <1>3, <1>4 DEF Slot

LEMMA PlusIs ==
    ASSUME NEW k \in Slot, NEW m \in Slot
    PROVE  Plus(k, m) = IF k + m < N THEN k + m ELSE k + m - N
<1>1. k + m \in Nat /\ k + m < 2*N
  BY NType DEF Slot
<1> QED BY <1>1, NType, Modulo DEF Plus, N

LEMMA MinusIs ==
    ASSUME NEW k \in Slot, NEW m \in Slot
    PROVE  Minus(k, m) = IF m <= k THEN k - m ELSE k + N - m
<1>1. k + N - m \in Nat /\ k + N - m < 2*N
  BY NType DEF Slot
<1>2. CASE m <= k
  <2>1. k + N - m >= N /\ (k + N - m) - N = k - m
    BY <1>2, NType DEF Slot
  <2> QED BY <1>1, <1>2, <2>1, NType, Modulo DEF Minus, N
<1>3. CASE ~(m <= k)
  <2>1. k + N - m < N
    BY <1>3, NType DEF Slot
  <2> QED BY <1>1, <1>3, <2>1, NType, Modulo DEF Minus, N
<1> QED BY <1>2, <1>3

\* How many characters the ring holds.
Held == Minus(log_end, log_start)

(* The characters in the ring, one by one. *)
RingInv ==
    /\ Held = IF Len(logged) < N THEN Len(logged) ELSE N - 1
    /\ \A k \in 1..Held : log_buff[Plus(log_start, k-1)] = logged[Len(logged) - Held + k]

LEMMA HeldType ==
    ASSUME log_start \in Slot, log_end \in Slot
    PROVE  /\ Held \in Slot
           /\ Plus(log_start, Held) = log_end
           /\ \A k \in Slot : Plus(log_start, k) \in Slot
           /\ \A k \in Slot : Plus(log_start, k) = log_end => k = Held
           /\ Plus(log_end, 1) = log_start <=> Held = N - 1
<1>1. Held = IF log_start <= log_end THEN log_end - log_start ELSE log_end + N - log_start
  BY MinusIs DEF Held
<1>2. Held \in Slot
  BY <1>1, NType DEF Slot
<1>3. \A k \in Slot : Plus(log_start, k) = IF log_start + k < N THEN log_start + k
                                           ELSE log_start + k - N
  BY PlusIs
<1>4. 1 \in Slot
  BY NType DEF Slot
<1>5. Plus(log_end, 1) = IF log_end + 1 < N THEN log_end + 1 ELSE log_end + 1 - N
  BY <1>4, PlusIs
<1> QED BY <1>1, <1>2, <1>3, <1>5, NType DEF Slot

LEMMA RingInvImplies ==
    ASSUME TypeOK, RingInv
    PROVE  RingHoldsTail
<1> DEFINE L == Len(logged)
<1>1. L \in Nat /\ Held \in Slot
  BY HeldType DEF TypeOK
<1>2. Held <= L
  BY <1>1, NType DEF RingInv, Slot
<1>3. /\ Len(Newest(Held)) = Held
      /\ Newest(Held) \in Seq(Char)
      /\ \A k \in 1..Held : Newest(Held)[k] = logged[L - Held + k]
  <2>1. \A k \in (L-Held+1)..L : k \in 1..L
    BY <1>1, <1>2 DEF Slot
  <2>2. L - Held + 1 \in Int /\ L \in Int
    BY <1>1 DEF Slot
  <2>3. logged \in Seq(Char) /\ Newest(Held) = SubSeq(logged, L-Held+1, L)
    BY DEF TypeOK, Newest, LastOf
  <2> HIDE DEF L
  <2>4. /\ Len(SubSeq(logged, L-Held+1, L)) =
              IF L-Held+1 <= L THEN L-(L-Held+1)+1 ELSE 0
        /\ SubSeq(logged, L-Held+1, L) \in Seq(Char)
        /\ \A k \in 1..(L-(L-Held+1)+1) :
              SubSeq(logged, L-Held+1, L)[k] = logged[L-Held+1+k-1]
    BY <2>1, <2>2, <2>3, SubSeqProperties DEF L
  <2>5. Held \in Nat
    BY <1>1, NType
  <2>6. L-(L-Held+1)+1 = Held /\ (Held = 0 <=> ~(L-Held+1 <= L))
        /\ \A k \in 1..Held : L-Held+1+k-1 = L-Held+k
    BY ONLY <1>1, <2>5
  <2> QED BY ONLY <2>3, <2>4, <2>5, <2>6
<1>4. [k \in 1..Held |-> log_buff[Plus(log_start, k-1)]] = Newest(Held)
  <2>1. Newest(Held) = [k \in 1..Held |-> Newest(Held)[k]]
    BY <1>1, <1>3 DEF Slot
  <2>2. \A k \in 1..Held : log_buff[Plus(log_start, k-1)] = Newest(Held)[k]
    BY <1>3 DEF RingInv
  <2> QED BY <2>1, <2>2
<1> QED BY <1>4 DEF RingHoldsTail, RingInv, Held, N

\* putch on a ring with room, and on one that drops its oldest character.
LEMMA PutchKeepsRing ==
    ASSUME TypeOK, RingInv, NEW c \in CPU, putch(c), log_start' \in Slot, log_end' \in Slot
    PROVE  RingInv'
<1> DEFINE ch == Head(cpu[c].text)
           L == Len(logged)
<1>1. /\ L \in Nat /\ Len(logged') = L + 1
      /\ logged'[L+1] = ch
      /\ \A k \in 1..L : logged'[k] = logged[k]
  BY DEF TypeOK, putch
<1>2. /\ log_buff'[log_end] = ch
      /\ \A k \in Slot \ {log_end} : log_buff'[k] = log_buff[k]
  BY DEF TypeOK, putch
<1>3. log_end' = Plus(log_end, 1)
  BY DEF putch
<1>h. /\ Held \in Slot
      /\ Plus(log_start, Held) = log_end
      /\ \A k \in Slot : Plus(log_start, k) \in Slot
      /\ \A k \in Slot : Plus(log_start, k) = log_end => k = Held
      /\ Plus(log_end, 1) = log_start <=> Held = N - 1
  BY HeldType DEF TypeOK
<1>p. Plus(log_end, 1) = IF log_end + 1 < N THEN log_end + 1 ELSE log_end + 1 - N
  <2>1. 1 \in Slot
    BY NType DEF Slot
  <2> QED BY <2>1, PlusIs DEF TypeOK
<1>4. CASE Held # N - 1
  <2>1. log_start' = log_start
    BY <1>4, <1>h DEF putch, Start
  <2>2. Held' = Held + 1
    <3>1. /\ Held = (IF log_start <= log_end THEN log_end - log_start
                     ELSE log_end + N - log_start)
          /\ Held' = (IF log_start' <= log_end' THEN log_end' - log_start'
                      ELSE log_end' + N - log_start')
      BY MinusIs DEF Held, TypeOK
    <3> QED BY <3>1, <2>1, <1>3, <1>p, <1>4, NType DEF TypeOK, Slot
  <2>3. Held = L /\ L + 1 < N
    BY SMTT(30), <1>4, <1>h, <1>1, NType DEF RingInv, Slot
  <2>4. ASSUME NEW k \in 1..L+1
        PROVE  log_buff'[Plus(log_start, k-1)] = logged'[k]
    <3>1. CASE k = L + 1
      BY <3>1, <1>1, <1>2, <1>h, <2>3
    <3>2. CASE k # L + 1
      <4>1. k \in 1..Held /\ k - 1 \in Slot /\ k - 1 # Held
        BY <3>2, <2>3, <1>1, NType DEF Slot
      <4>2. Plus(log_start, k-1) \in Slot \ {log_end}
        BY <4>1, <1>h
      <4>3. log_buff[Plus(log_start, k-1)] = logged[k]
        <5>1. L - Held + k = k
          BY <4>1, <2>3, <1>1
        <5> QED BY <5>1, <4>1 DEF RingInv
      <4> QED BY <4>1, <4>2, <4>3, <1>1, <1>2, <2>3
    <3> QED BY <3>1, <3>2
  <2>5. \A k \in 1..Held' : Len(logged') - Held' + k = k
    BY <2>2, <2>3, <1>1
  <2> QED BY <2>1, <2>2, <2>3, <2>4, <2>5, <1>1, NType DEF RingInv
<1>5. CASE Held = N - 1
  <2>1. /\ log_start = Plus(log_end, 1)
        /\ log_end' = log_start
        /\ log_start' = Plus(log_start, 1)
    BY <1>5, <1>3, <1>h DEF putch, Start
  <2>2. log_start' = IF log_start + 1 < N THEN log_start + 1 ELSE log_start + 1 - N
    <3>1. 1 \in Slot
      BY NType DEF Slot
    <3> QED BY <2>1, <3>1, PlusIs DEF TypeOK
  <2>3. Held' = N - 1
    <3>1. Held' = IF log_start' <= log_end' THEN log_end' - log_start'
                  ELSE log_end' + N - log_start'
      BY MinusIs DEF Held
    <3> QED BY <3>1, <2>1, <2>2, NType DEF TypeOK, Slot
  <2>4. Held <= L /\ L + 1 >= N
    BY <1>1, <1>5, NType DEF RingInv
  <2>5. ASSUME NEW k \in 1..N-1
        PROVE  log_buff'[Plus(log_start', k-1)] = logged'[L + 1 - (N-1) + k]
    <3>1. Plus(log_start', k-1) = Plus(log_start, k)
      <4>1. k \in Slot /\ k - 1 \in Slot
        BY NType DEF Slot
      <4>2. /\ Plus(log_start, k) = IF log_start + k < N THEN log_start + k
                                    ELSE log_start + k - N
            /\ Plus(log_start', k-1) = IF log_start' + (k-1) < N THEN log_start' + (k-1)
                                       ELSE log_start' + (k-1) - N
        BY <4>1, PlusIs DEF TypeOK
      <4> QED BY <4>2, <2>2, NType DEF TypeOK, Slot
    <3>2. CASE k = N - 1
      <4>1. Plus(log_start, k) = log_end /\ L + 1 - (N-1) + k = L + 1
        BY <3>2, <1>5, <1>h, <1>1, NType
      <4> QED BY <4>1, <3>1, <1>1, <1>2
    <3>3. CASE k # N - 1
      <4>1. k \in Slot \ {Held} /\ k + 1 \in 1..Held
        BY <3>3, <1>5, NType DEF Slot
      <4>2. Plus(log_start, k) \in Slot \ {log_end}
        BY <4>1, <1>h
      <4>3. log_buff[Plus(log_start, k)] = logged[L - Held + (k+1)]
        <5>1. (k + 1) - 1 = k
          OBVIOUS
        <5> QED BY <5>1, <4>1 DEF RingInv
      <4>4. /\ L - Held + (k+1) = L + 1 - (N-1) + k
            /\ L - Held + (k+1) \in 1..L
        BY <4>1, <1>1, <1>5, <2>4, NType DEF Slot
      <4> QED BY <4>2, <4>3, <4>4, <3>1, <1>1, <1>2
    <3> QED BY <3>2, <3>3
  <2> QED BY <2>3, <2>4, <2>5, <1>1, NType DEF RingInv
<1> QED BY <1>4, <1>5

-----------------------------------------------------------------------------
LEMMA InitTyped == Init => TypeOK /\ RingInv
<1> SUFFICES ASSUME Init PROVE TypeOK /\ RingInv
  OBVIOUS
<1>1. 0 \in Slot /\ N \in Nat
  BY NType DEF Slot
<1>c. logged = <<>> /\ <<>> \in Seq(Char)
  BY DEF Init
<1>2. cpu \in [CPU -> CpuType]
  <2>1. /\ "task" \in Job
        /\ "idle" \in Places
        /\ <<>> \in Seq(STRING)
        /\ <<>> \in Seq(Seq(STRING))
    BY DEF Places, Job
  <2> QED BY <1>1, <2>1 DEF Init, CpuType
<1>3. TypeOK
  BY <1>1, <1>2, <1>c DEF Init, TypeOK, Slot, Char, N, Places
<1>4. Held = 0
  BY <1>1, MinusIs DEF Init, Held
<1>5. RingInv
  BY <1>1, <1>4, NType DEF Init, RingInv
<1> QED BY <1>3, <1>5

\* The fields of a cpu that is changed stay in their types.
LEMMA TypeStep ==
    ASSUME TypeOK, NEW c \in CPU,
           klog(c) \/ klog_show(c) \/ TimerInterrupt(c) \/ kernel_panic(c)
    PROVE  TypeOK'
<1>t. cpu \in [CPU -> CpuType]
  BY DEF TypeOK
<1>s. {"wait", "scan", "print", "clear", "enter"} \subseteq Places
  BY DEF Places
<1>g. \A k \in Places : Go(c, k) => cpu' \in [CPU -> CpuType]
  BY DEF Go, TypeOK, CpuType
<1>r. \A k \in Places : Released(c, k) => cpu' \in [CPU -> CpuType]
  BY <1>g DEF Released, Places
<1>p. \A k \in Slot, n \in Nat : Plus(k, n) \in Slot /\ Minus(k, n) \in Slot
  <2>1. N \in Nat \ {0}
    BY NType
  <2>2. ASSUME NEW k \in Slot, NEW n \in Nat PROVE (k + n) % N \in Slot
    BY <2>1 DEF Slot
  <2>3. ASSUME NEW k \in Slot, NEW n \in Nat PROVE (k + N - n) % N \in Slot
    BY <2>1 DEF Slot
  <2> QED BY <2>2, <2>3 DEF Plus, Minus, N
<1>1. CASE Call(c)
  <2>1. \A text \in Texts : text \in Seq(STRING)
    BY ConsoleAssumption
  <2>2. cpu' \in [CPU -> CpuType]
    <3>1. PICK text \in Texts : cpu' = [cpu EXCEPT ![c].at = "wait", ![c].text = text]
      BY <1>1 DEF Call
    <3> QED BY <1>t, <1>s, <2>1, <3>1 DEF CpuType
  <2> QED BY <1>1, <2>2 DEF Call, TypeOK, log
<1>2. CASE LockLog(c)
  BY <1>2, <1>g DEF LockLog, lock_wait, TypeOK, log, Places
<1>3. CASE putch(c)
  <2>1. Head(cpu[c].text) \in STRING /\ Tail(cpu[c].text) \in Seq(STRING)
    <3>1. cpu[c].text \in Seq(STRING) /\ cpu[c].text # <<>>
      BY <1>t, <1>3 DEF putch, CpuType
    <3> QED BY <3>1, HeadTailProperties
  <2>2. log_start' \in Slot /\ log_end' \in Slot
    BY <1>3, <1>p DEF putch, Start, TypeOK
  <2>3. cpu' \in [CPU -> CpuType]
    BY <1>3, <2>1 DEF putch, TypeOK, CpuType
  <2> QED BY <1>3, <2>1, <2>2, <2>3 DEF putch, TypeOK, Char
<1>4. CASE Logged(c)
  BY <1>4, <1>r DEF Logged, TypeOK, log, Places
<1>5. CASE klog_show(c)
  <2>1. CASE TermClear(c)
    <3>1. cpu' \in [CPU -> CpuType]
      BY ZenonT(60), <1>t, <1>s, <2>1 DEF TermClear, CpuType
    <3> QED BY <2>1, <3>1 DEF TermClear, TypeOK, log
  <2>2. CASE Scan(c)
    <3>1. Lines(cpu[c].used) \in Nat
      <4>1. cpu[c].used \in Nat /\ term_width \in Nat \ {0}
        BY TerminalAssumption DEF TypeOK, CpuType
      <4>2. (cpu[c].used + term_width - 1) \div term_width \in Nat
        BY <4>1
      <4> QED BY <4>1, <4>2 DEF Lines
    <3>2. \A k \in Slot : Minus(k, 1) \in Slot
      BY <1>p
    <3>3. Minus(log_end, cpu[c].visible) \in Slot
      BY <1>p DEF TypeOK, CpuType
    <3>4. cpu' \in [CPU -> CpuType]
      <4> DEFINE i == IF cpu[c].visible = 0 THEN log_end ELSE cpu[c].i
                 used == CASE log_buff[i] = "\n" -> Lines(cpu[c].used)
                           [] log_buff[i] = NUL  -> cpu[c].used
                           [] OTHER              -> cpu[c].used + 1
      <4>1. i \in Slot /\ cpu[c].visible \in Nat
        BY <1>t DEF TypeOK, CpuType
      <4>2. used \in Nat
        BY <1>t, <3>1 DEF CpuType
      <4> HIDE DEF i, used
      <4>3. \/ cpu' = [cpu EXCEPT ![c].used = used, ![c].visible = @ + 1, ![c].i = Minus(i, 1)]
            \/ cpu' = [cpu EXCEPT ![c].at = "print", ![c].i = Minus(log_end, cpu[c].visible)]
        BY <2>2, <1>t DEF Scan, CpuType, i, used
      <4>4. ASSUME NEW u \in Nat, NEW v \in Nat, NEW j \in Slot
            PROVE  [cpu EXCEPT ![c].used = u, ![c].visible = v, ![c].i = j] \in [CPU -> CpuType]
        BY <1>t DEF CpuType
      <4>5. CASE cpu' = [cpu EXCEPT ![c].used = used, ![c].visible = @ + 1, ![c].i = Minus(i, 1)]
        <5>1. cpu' = [cpu EXCEPT ![c].used = used, ![c].visible = cpu[c].visible + 1,
                                 ![c].i = Minus(i, 1)]
          BY <4>5, <1>t DEF CpuType
        <5>2. cpu[c].visible + 1 \in Nat /\ Minus(i, 1) \in Slot
          BY <4>1, <3>2
        <5>3. [cpu EXCEPT ![c].used = used, ![c].visible = cpu[c].visible + 1,
                          ![c].i = Minus(i, 1)] \in [CPU -> CpuType]
          BY <5>2, <4>2, <4>4
        <5> QED BY <5>1, <5>3
      <4>6. CASE cpu' = [cpu EXCEPT ![c].at = "print", ![c].i = Minus(log_end, cpu[c].visible)]
        BY <1>t, <1>s, <3>3, <4>6 DEF CpuType
      <4> QED BY <4>3, <4>5, <4>6
    <3> QED BY <2>2, <3>4 DEF Scan, TypeOK, log
  <2>3. CASE PrintNext(c)
    BY <2>3, <1>p DEF PrintNext, TypeOK, log, CpuType
  <2>4. CASE Printed(c)
    BY <2>4, <1>r DEF Printed, TypeOK, log, Places
  <2>5. CASE fb_swap_buffers(c)
    BY <2>5, <1>g DEF fb_swap_buffers, TypeOK, log, Places
  <2> QED BY <1>5, <2>1, <2>2, <2>3, <2>4, <2>5 DEF klog_show
<1>6. CASE TimerInterrupt(c)
  <2>1. CASE Preempt(c)
    <3>1. cpu' \in [CPU -> CpuType] /\ saved' \in Places
      BY ZenonT(60), <2>1 DEF Preempt, TypeOK, Places, CpuType, Job
    <3> QED BY <2>1, <3>1 DEF Preempt, TypeOK, log
  <2>2. CASE Resume(c)
    <3>1. cpu' \in [CPU -> CpuType]
      BY <2>2 DEF Resume, TypeOK, CpuType, Job
    <3> QED BY <2>2, <3>1 DEF Resume, TypeOK, log
  <2>3. CASE halt(c)
    BY <2>3, <1>g DEF halt, TypeOK, log, Places
  <2> QED BY <1>6, <2>1, <2>2, <2>3 DEF TimerInterrupt
<1>7. CASE kernel_panic(c)
  <2>1. CASE EnterPanic(c)
    <3>1. PanicTexts \in Seq(Seq(STRING))
      BY ConsoleAssumption
    <3>2. cpu' \in [CPU -> CpuType]
      BY ZenonT(60), <1>t, <1>s, <2>1, <3>1 DEF EnterPanic, Job, CpuType
    <3> QED BY <2>1, <3>2 DEF EnterPanic, TypeOK, log
  <2>2. CASE NextText(c)
    <3>1. cpu[c].left # <<>> => /\ Head(cpu[c].left) \in Seq(STRING)
                                /\ Tail(cpu[c].left) \in Seq(Seq(STRING))
      <4>1. cpu[c].left \in Seq(Seq(STRING))
        BY <1>t DEF CpuType
      <4> QED BY <4>1, HeadTailProperties
    <3>2. cpu' \in [CPU -> CpuType]
      BY <1>t, <1>s, <2>2, <3>1 DEF NextText, CpuType
    <3> QED BY <2>2, <3>2 DEF NextText, TypeOK, log
  <2> QED BY <1>7, <2>1, <2>2, <1>g DEF kernel_panic, LockPanic,
             apic_timer_set_handler, pit_wait, TypeOK, log, Places
<1> QED BY <1>1, <1>2, <1>3, <1>4, <1>5, <1>6, <1>7 DEF klog

LEMMA RingStep ==
    ASSUME TypeOK, RingInv, [Next]_consoleVars
    PROVE  TypeOK' /\ RingInv'
<1>1. ASSUME NEW c \in CPU, klog(c) \/ klog_show(c) \/ TimerInterrupt(c) \/ kernel_panic(c)
      PROVE  TypeOK' /\ RingInv'
  <2>1. TypeOK'
    BY <1>1, TypeStep
  <2>2. CASE putch(c)
    BY <2>1, <2>2, PutchKeepsRing DEF TypeOK
  <2>3. CASE ~putch(c)
    <3>1. UNCHANGED log
      BY <1>1, <2>3 DEF klog, Call, LockLog, Logged, klog_show, TermClear, Scan, PrintNext,
         Printed, fb_swap_buffers, TimerInterrupt, Preempt, Resume, halt, kernel_panic,
         EnterPanic, LockPanic, apic_timer_set_handler, pit_wait, NextText
    <3> QED BY <2>1, <3>1 DEF log, RingInv, Held
  <2> QED BY <2>1, <2>2, <2>3
<1>2. CASE UNCHANGED consoleVars
  BY <1>2 DEF consoleVars, log, TypeOK, RingInv, Held
<1> QED BY <1>1, <1>2 DEF Next

LEMMA RingAlways == Spec => [](TypeOK /\ RingInv)
BY InitTyped, RingStep, PTL DEF Spec

(* The ring holds the newest characters of the log, in order, at every     *)
(* step: for every KLOG_BUFF_LEN, number of cpus, and text logged.         *)
THEOREM RingKept == Spec => []RingHoldsTail
BY RingAlways, RingInvImplies, PTL

-----------------------------------------------------------------------------
(* Who draws.                                                              *)

AtMostTwo == \A a, b, c \in CPU : a = b \/ b = c \/ a = c

\* Panicking, and past the wait for the other cpus.
Alone(c) == cpu[c].job = "panic" /\ cpu[c].at \notin {"enter", "set", "pit"}

\* A cpu is in a place of its job, and klogdisplayd left where it may be.
Placed ==
    /\ \A c \in CPU :
          /\ cpu[c].job = "task" => cpu[c].at \in Place["task"]
          /\ cpu[c].job = "display" => cpu[c].at \in Place["display"]
          /\ cpu[c].job = "panic" => cpu[c].at \in Place["panic"]
    /\ saved \in {"clear", "flush", NULL}

\* klogdisplayd is on one cpu, or saved, or on a cpu that panicked.
OneDisplay ==
    \A c \in CPU : cpu[c].job = "display" =>
        saved = NULL /\ \A d \in CPU : cpu[d].job = "display" => d = c

LockOwner ==
    \A c \in CPU : log_lock = c <=> \/ cpu[c].at = "put"
                                    \/ cpu[c].job = "display" /\ cpu[c].at \in {"scan", "print"}

PanicOwner ==
    \A c \in CPU : cpu[c].job = "panic" /\ cpu[c].at # "enter" => panic_lock = c

TimerHalts ==
    /\ \A c \in CPU : Alone(c) \/ At(c, "panic", "pit") \/ Halted(c) => timer = "halt"

LeftFull ==
    \A c \in CPU : cpu[c].job = "panic" /\ cpu[c].at \in {"enter", "set", "pit"} =>
        cpu[c].left # <<>>

(* The cpu that is alone is: another one is halted or waits for panic_lock,*)
(* or it has log_lock still and the first text waits for it.               *)
Stopped ==
    \A c, d \in CPU : Alone(c) /\ c # d =>
        \/ Halted(d)
        \/ At(d, "panic", "enter")
        \/ /\ log_lock = d
           /\ \/ cpu[c].at = "wait"
              \/ cpu[c].at = "next" /\ cpu[c].left # <<>>

DrawInv == /\ Placed
           /\ OneDisplay
           /\ LockOwner
           /\ PanicOwner
           /\ TimerHalts
           /\ LeftFull
           /\ Stopped

LEMMA PlaceIs ==
    /\ Place["task"] = {"idle", "wait", "put", "halted"}
    /\ Place["display"] = {"clear", "wait", "scan", "print", "flush", "halted"}
    /\ Place["panic"] = {"enter", "set", "pit", "next", "wait", "put", "clear", "scan",
                         "print", "flush", "dead"}
BY DEF Place, Job

LEMMA DrawInvImplies ==
    ASSUME TypeOK, DrawInv
    PROVE  DrawsAlone
<1> SUFFICES ASSUME NEW c \in CPU, NEW d \in CPU, Draws(c), Draws(d), c # d PROVE FALSE
  BY DEF DrawsAlone
<1>1. cpu[c].job \in Job /\ cpu[d].job \in Job
  BY DEF TypeOK, CpuType
<1>2. ASSUME NEW a \in CPU, Draws(a) PROVE cpu[a].job = "display" \/ Alone(a)
  BY <1>2, PlaceIs DEF Draws, DrawInv, Placed, Alone, TypeOK, CpuType, Job
<1>3. ~(cpu[c].job = "display" /\ cpu[d].job = "display")
  BY DEF DrawInv, OneDisplay
<1>4. ASSUME NEW a \in CPU, NEW b \in CPU, a # b, Draws(a), Draws(b), Alone(a) PROVE FALSE
  BY <1>4 DEF DrawInv, Stopped, Draws, Halted, At
<1> QED BY <1>2, <1>3, <1>4

LEMMA InitDraws == Init => DrawInv
<1> SUFFICES ASSUME Init PROVE DrawInv
  OBVIOUS
<1>1. \A c \in CPU : cpu[c].job = "task" /\ cpu[c].at = "idle"
  BY DEF Init
<1> QED BY <1>1, PlaceIs, ConsoleAssumption DEF Init, DrawInv, Placed, OneDisplay, LockOwner,
           PanicOwner, TimerHalts, LeftFull, Stopped, Alone, At, Halted

\* What an action of c leaves of the other cpus.
Others(c) == \A d \in CPU \ {c} : cpu'[d] = cpu[d]

\* ... and the job and place it gives c.
Moved(c, job, step) == /\ Others(c)
                       /\ cpu'[c].job = job
                       /\ cpu'[c].at = step

LEMMA GoMoves ==
    ASSUME TypeOK, NEW c \in CPU, NEW k, Go(c, k)
    PROVE  Moved(c, cpu[c].job, k) /\ cpu'[c].left = cpu[c].left
BY DEF TypeOK, CpuType, Go, Moved, Others

\* Steps that change nothing of what DrawInv is about.
LEMMA DrawFrame ==
    ASSUME DrawInv, TypeOK, UNCHANGED <<log_lock, panic_lock, timer, saved>>,
           \A c \in CPU : /\ cpu'[c].job = cpu[c].job
                          /\ cpu'[c].at = cpu[c].at
                          /\ cpu'[c].left = cpu[c].left
    PROVE  DrawInv'
BY DEF DrawInv, Placed, OneDisplay, LockOwner, PanicOwner, TimerHalts, LeftFull, Stopped,
   Alone, At, Halted

LEMMA klogDraws ==
    ASSUME DrawInv, TypeOK, NEW c \in CPU, klog(c)
    PROVE  DrawInv'
<1> USE PlaceIs DEF DrawInv, Placed, OneDisplay, LockOwner, PanicOwner, TimerHalts, LeftFull,
        Stopped, Alone, At, Halted, Moved, Others
<1>j. \A d \in CPU : cpu[d].job \in {"task", "display", "panic"}
  BY DEF TypeOK, CpuType, Job
<1>1. CASE Call(c)
  <2>1. Moved(c, "task", "wait")
    BY <1>1 DEF Call, TypeOK, CpuType
  <2>2. UNCHANGED <<log_lock, panic_lock, timer, saved>> /\ cpu[c].job = "task" /\ cpu[c].at = "idle"
    BY <1>1 DEF Call
  <2>3. \A d \in CPU : ~Alone(d)
    BY <1>1 DEF Call, Stopping
  <2> QED BY <2>1, <2>2, <2>3
<1>2. CASE LockLog(c)
  <2>1. Moved(c, cpu[c].job, IF cpu[c].job = "display" THEN "scan" ELSE "put")
        /\ cpu'[c].left = cpu[c].left
    BY <1>2, GoMoves DEF LockLog, lock_wait
  <2>2. /\ UNCHANGED <<panic_lock, timer, saved>>
        /\ cpu[c].at = "wait"
        /\ log_lock = NULL /\ log_lock' = c
    BY <1>2 DEF LockLog, lock_wait
  <2>3. \A d \in CPU : log_lock # d
    BY <2>2, ConsoleAssumption
  <2>4. Placed'
    BY <2>1, <2>2, <1>j
  <2>5. OneDisplay' /\ PanicOwner' /\ TimerHalts' /\ LeftFull'
    BY <2>1, <2>2, <1>j
  <2>6. LockOwner'
    BY <2>1, <2>2, <2>3, <1>j
  <2>7. Stopped'
    BY <2>1, <2>2, <2>3, <1>j
  <2> QED BY <2>4, <2>5, <2>6, <2>7
<1>3. CASE putch(c)
  <2>1. \A d \in CPU : /\ cpu'[d].job = cpu[d].job
                       /\ cpu'[d].at = cpu[d].at
                       /\ cpu'[d].left = cpu[d].left
    BY <1>3 DEF putch, TypeOK, CpuType
  <2> QED BY <2>1, <1>3, DrawFrame DEF putch
<1>4. CASE Logged(c)
  <2>1. PICK k \in {"halted", "next", "idle"} :
          /\ Moved(c, cpu[c].job, k)
          /\ cpu'[c].left = cpu[c].left
          /\ k = IF cpu[c].job # "panic" /\ Stopping THEN "halted"
                 ELSE IF cpu[c].job = "panic" THEN "next" ELSE "idle"
    BY <1>4, GoMoves DEF Logged, Released
  <2>2. /\ UNCHANGED <<panic_lock, timer, saved>>
        /\ cpu[c].at = "put"
        /\ log_lock = c /\ log_lock' = NULL
    BY <1>4 DEF Logged
  <2>3. Stopping <=> \E d \in CPU : Alone(d)
    BY DEF Stopping
  <2>4. \A d \in CPU : NULL # d
    BY ConsoleAssumption
  <2>5. Placed'
    BY <2>1, <2>2, <1>j
  <2>6. OneDisplay' /\ PanicOwner' /\ TimerHalts' /\ LeftFull'
    <3>1. \A d \in CPU : /\ cpu'[d].job = cpu[d].job
                         /\ cpu'[d].at # cpu[d].at => cpu'[d].at \in {"halted", "next", "idle"}
                         /\ d # c => cpu'[d] = cpu[d]
      BY <2>1
    <3>2. OneDisplay'
      BY <2>2, <3>1
    <3>3. PanicOwner'
      BY <2>2, <3>1
    <3>4. TimerHalts'
      BY <2>1, <2>2, <2>3, <3>1
    <3>5. LeftFull'
      BY <2>2, <3>1
    <3> QED BY <3>2, <3>3, <3>4, <3>5
  <2>7. LockOwner'
    BY <2>1, <2>2, <2>4, <1>j
  <2>8. Stopped'
    BY <2>1, <2>2, <2>3, <2>4, <1>j
  <2> QED BY <2>5, <2>6, <2>7, <2>8
<1> QED BY <1>1, <1>2, <1>3, <1>4 DEF klog

LEMMA klog_showDraws ==
    ASSUME DrawInv, TypeOK, NEW c \in CPU, klog_show(c)
    PROVE  DrawInv'
<1> USE PlaceIs DEF DrawInv, Placed, OneDisplay, LockOwner, PanicOwner, TimerHalts, LeftFull,
        Stopped, Alone, At, Halted, Moved, Others
<1>j. \A d \in CPU : cpu[d].job \in {"task", "display", "panic"}
  BY DEF TypeOK, CpuType, Job
<1>1. CASE TermClear(c)
  <2>1. /\ Moved(c, cpu[c].job, IF cpu[c].job = "panic" THEN "scan" ELSE "wait")
        /\ cpu'[c].left = cpu[c].left
    BY <1>1 DEF TermClear, TypeOK, CpuType
  <2>2. UNCHANGED <<log_lock, panic_lock, timer, saved>> /\ cpu[c].at = "clear"
    BY <1>1 DEF TermClear
  <2> QED BY <2>1, <2>2, <1>j
<1>2. CASE Scan(c)
  <2>1. PICK k \in {"scan", "print"} : Moved(c, cpu[c].job, k) /\ cpu'[c].left = cpu[c].left
    BY <1>2 DEF Scan, TypeOK, CpuType
  <2>2. UNCHANGED <<log_lock, panic_lock, timer, saved>> /\ cpu[c].at = "scan"
    BY <1>2 DEF Scan
  <2> QED BY <2>1, <2>2, <1>j
<1>3. CASE PrintNext(c)
  <2>1. \A d \in CPU : /\ cpu'[d].job = cpu[d].job
                       /\ cpu'[d].at = cpu[d].at
                       /\ cpu'[d].left = cpu[d].left
    BY SMTT(30), <1>3 DEF PrintNext, TypeOK, CpuType
  <2> QED BY <2>1, <1>3, DrawFrame DEF PrintNext
<1>4. CASE Printed(c)
  <2>1. PICK k \in {"halted", "flush"} :
          /\ Moved(c, cpu[c].job, k)
          /\ cpu'[c].left = cpu[c].left
          /\ k = IF cpu[c].job # "panic" /\ Stopping THEN "halted" ELSE "flush"
    BY <1>4, GoMoves DEF Printed, Released
  <2>2. /\ UNCHANGED <<panic_lock, timer, saved>>
        /\ cpu[c].at = "print"
        /\ log_lock' = IF cpu[c].job = "panic" THEN log_lock ELSE NULL
    BY <1>4 DEF Printed
  <2>3. Stopping <=> \E d \in CPU : Alone(d)
    BY DEF Stopping
  <2>4. cpu[c].job \in {"display", "panic"}
    BY <2>2, <1>j
  <2>5. cpu[c].job = "display" => log_lock = c
    BY <2>2
  <2>6. LockOwner'
    BY <2>1, <2>2, <2>4, <2>5, <1>j, ConsoleAssumption
  <2>7. Stopped'
    BY <2>1, <2>2, <2>3, <2>4, <2>5, <1>j, ConsoleAssumption
  <2>8. Placed' /\ OneDisplay' /\ PanicOwner' /\ LeftFull'
    BY <2>1, <2>2, <2>4, <1>j
  <2>9. TimerHalts'
    BY <2>1, <2>2, <2>3, <2>4, <1>j
  <2> QED BY <2>6, <2>7, <2>8, <2>9
<1>5. CASE fb_swap_buffers(c)
  <2>1. /\ Moved(c, cpu[c].job, IF cpu[c].job = "panic" THEN "dead" ELSE "clear")
        /\ cpu'[c].left = cpu[c].left
    BY <1>5, GoMoves DEF fb_swap_buffers
  <2>2. UNCHANGED <<log_lock, panic_lock, timer, saved>> /\ cpu[c].at = "flush"
    BY <1>5 DEF fb_swap_buffers
  <2> QED BY <2>1, <2>2, <1>j
<1> QED BY <1>1, <1>2, <1>3, <1>4, <1>5 DEF klog_show

LEMMA TimerDraws ==
    ASSUME DrawInv, TypeOK, NEW c \in CPU, TimerInterrupt(c)
    PROVE  DrawInv'
<1> USE PlaceIs DEF DrawInv, Placed, OneDisplay, LockOwner, PanicOwner, TimerHalts, LeftFull,
        Stopped, Alone, At, Halted, Moved, Others
<1>j. \A d \in CPU : cpu[d].job \in {"task", "display", "panic"}
  BY DEF TypeOK, CpuType, Job
<1>1. CASE Preempt(c)
  <2>1. Moved(c, "task", "idle")
    BY <1>1 DEF Preempt, TypeOK, CpuType
  <2>2. /\ UNCHANGED <<log_lock, panic_lock, timer>> /\ saved' = cpu[c].at
        /\ cpu[c].job = "display" /\ timer = "switch"
        /\ cpu[c].at \notin {"wait", "put", "scan", "print"}
    BY <1>1 DEF Preempt, Masked
  <2>3. \A d \in CPU : ~Alone(d) /\ ~Halted(d)
    BY <2>2
  <2> QED BY <2>1, <2>2, <2>3, <1>j
<1>2. CASE Resume(c)
  <2>1. Moved(c, "display", saved)
    BY <1>2 DEF Resume, TypeOK, CpuType
  <2>2. /\ UNCHANGED <<log_lock, panic_lock, timer>> /\ saved' = NULL
        /\ cpu[c].job = "task" /\ cpu[c].at = "idle" /\ timer = "switch"
        /\ saved \in {"clear", "flush"} /\ saved # NULL
    BY <1>2 DEF Resume
  <2>3. \A d \in CPU : ~Alone(d) /\ ~Halted(d)
    BY <2>2
  <2>p. Placed' /\ LeftFull'
    BY <2>1, <2>2, <2>3, <1>j
  <2>o. OneDisplay' /\ LockOwner'
    BY <2>1, <2>2, <2>3, <1>j
  <2>t. TimerHalts' /\ PanicOwner'
    BY <2>1, <2>2, <2>3, <1>j
  <2>s. Stopped'
    BY <2>1, <2>2, <2>3, <1>j
  <2> QED BY <2>p, <2>o, <2>t, <2>s
<1>3. CASE halt(c)
  <2>1. Moved(c, cpu[c].job, "halted") /\ cpu'[c].left = cpu[c].left
    BY <1>3, GoMoves DEF halt
  <2>2. /\ UNCHANGED <<log_lock, panic_lock, timer, saved>>
        /\ cpu[c].job # "panic" /\ timer = "halt"
        /\ cpu[c].at \notin {"wait", "put", "scan", "print"}
    BY <1>3 DEF halt, Masked
  <2> QED BY <2>1, <2>2, <1>j
<1> QED BY <1>1, <1>2, <1>3 DEF TimerInterrupt

LEMMA kernel_panicDraws ==
    ASSUME DrawInv, TypeOK, AtMostTwo, NEW c \in CPU, kernel_panic(c)
    PROVE  DrawInv'
<1> USE PlaceIs DEF DrawInv, Placed, OneDisplay, LockOwner, PanicOwner, TimerHalts, LeftFull,
        Stopped, Alone, At, Halted, Moved, Others
<1>j. \A d \in CPU : cpu[d].job \in {"task", "display", "panic"}
  BY DEF TypeOK, CpuType, Job
<1>1. CASE EnterPanic(c)
  <2>1. Moved(c, "panic", "enter") /\ cpu'[c].left = PanicTexts
    BY <1>1 DEF EnterPanic, TypeOK, CpuType
  <2>2. /\ UNCHANGED <<log_lock, panic_lock, timer, saved>>
        /\ cpu[c].job # "panic"
        /\ cpu[c].at \notin {"wait", "put", "scan", "print"}
    BY <1>1 DEF EnterPanic, Masked
  <2>3. PanicTexts # <<>>
    BY ConsoleAssumption
  <2> QED BY <2>1, <2>2, <2>3, <1>j
<1>2. CASE LockPanic(c)
  <2>1. Moved(c, "panic", "set") /\ cpu'[c].left = cpu[c].left
    BY <1>2, GoMoves DEF LockPanic
  <2>2. /\ UNCHANGED <<log_lock, timer, saved>>
        /\ panic_lock = NULL /\ panic_lock' = c
        /\ cpu[c].job = "panic" /\ cpu[c].at = "enter"
    BY <1>2 DEF LockPanic
  <2>3. \A d \in CPU : panic_lock # d
    BY <2>2, ConsoleAssumption
  <2> QED BY <2>1, <2>2, <2>3, <1>j
<1>3. CASE apic_timer_set_handler(c)
  <2>1. Moved(c, "panic", "pit") /\ cpu'[c].left = cpu[c].left
    BY <1>3, GoMoves DEF apic_timer_set_handler
  <2>2. /\ UNCHANGED <<log_lock, panic_lock, saved>> /\ timer' = "halt"
        /\ cpu[c].job = "panic" /\ cpu[c].at = "set"
    BY <1>3 DEF apic_timer_set_handler
  <2> QED BY <2>1, <2>2, <1>j
<1>4. CASE pit_wait(c)
  <2>1. Moved(c, "panic", "next") /\ cpu'[c].left = cpu[c].left
    BY <1>4, GoMoves DEF pit_wait
  <2>2. /\ UNCHANGED <<log_lock, panic_lock, timer, saved>>
        /\ cpu[c].job = "panic" /\ cpu[c].at = "pit"
        /\ \A d \in CPU \ {c} : Quiet(d)
    BY <1>4 DEF pit_wait
  <2>3. ASSUME NEW d \in CPU \ {c}
        PROVE  Halted(d) \/ At(d, "panic", "enter") \/ log_lock = d
    <3>1. CASE cpu[d].at = "wait" /\ log_lock # NULL
      <4>1. log_lock \in CPU /\ log_lock # c
        BY <3>1, <2>2 DEF TypeOK
      <4>2. log_lock = d
        BY <4>1 DEF AtMostTwo
      <4> QED BY <4>2
    <3> QED BY <3>1, <2>2 DEF Quiet
  <2>4. \A d \in CPU : ~Alone(d)
    BY <2>2
  <2>5. Stopped'
    BY <2>1, <2>2, <2>3, <2>4
  <2> QED BY <2>1, <2>2, <2>5, <1>j
<1>5. CASE NextText(c)
  <2>1. /\ Moved(c, "panic", IF cpu[c].left = <<>> THEN "clear" ELSE "wait")
    BY <1>5 DEF NextText, TypeOK, CpuType
  <2>2. /\ UNCHANGED <<log_lock, panic_lock, timer, saved>>
        /\ cpu[c].job = "panic" /\ cpu[c].at = "next"
    BY <1>5 DEF NextText
  <2>p. Placed' /\ LeftFull'
    BY <2>1, <2>2, <1>j
  <2>o. OneDisplay' /\ LockOwner'
    BY <2>1, <2>2, <1>j
  <2>t. TimerHalts' /\ PanicOwner'
    BY <2>1, <2>2, <1>j
  <2>s. Stopped'
    BY <2>1, <2>2, <1>j
  <2> QED BY <2>p, <2>o, <2>t, <2>s
<1> QED BY <1>1, <1>2, <1>3, <1>4, <1>5 DEF kernel_panic

LEMMA DrawStep ==
    ASSUME DrawInv, TypeOK, AtMostTwo, [Next]_consoleVars
    PROVE  DrawInv'
<1>1. CASE Next
  BY <1>1, klogDraws, klog_showDraws, TimerDraws, kernel_panicDraws DEF Next
<1>2. CASE UNCHANGED consoleVars
  BY <1>2, DrawFrame DEF consoleVars
<1> QED BY <1>1, <1>2

(* On a machine with no more than two cpus, the screen is drawn by one cpu *)
(* at a time, although klog_show_now takes no lock: the cpu that panics    *)
(* has outwaited klogdisplayd on the other one.                            *)
THEOREM NobodyDrawsOver == AtMostTwo => (Spec => []DrawsAlone)
<1> SUFFICES ASSUME AtMostTwo PROVE Spec => []DrawsAlone
  OBVIOUS
<1>1. DrawInv /\ TypeOK /\ [Next]_consoleVars => DrawInv'
  BY DrawStep
<1>2. TypeOK /\ DrawInv => DrawsAlone
  BY DrawInvImplies
<1> QED BY <1>1, <1>2, InitDraws, RingAlways, PTL DEF Spec

-----------------------------------------------------------------------------
(* The terminal.                                                           *)

Term == {t \in [state: {"READY", "CMD_WAIT", "PARAM_WAIT"}, cparams: Seq(Nat),
                fgcolor: Nat, bgcolor: Nat,
                cursor_x: 0..term_width-1, cursor_y: 0..term_height-1,
                screen: [Cell -> Char \X Nat \X Nat]] :
            t.state = "PARAM_WAIT" => t.cparams # <<>>}

\* Term while a character is drawn, when the cursor may be off the screen.
Wide == [state: {"READY"}, cparams: {<<>>}, fgcolor: Nat, bgcolor: Nat,
         cursor_x: Nat, cursor_y: 0..term_height, screen: [Cell -> Char \X Nat \X Nat]]

LEMMA SizeType == /\ term_width \in Nat \ {0} /\ term_height \in Nat \ {0}
                  /\ 0 \in 0..term_width-1 /\ 0 \in 0..term_height-1
BY TerminalAssumption

LEMMA BlankType == \A bg \in Nat : Blank(bg) \in Char \X Nat \X Nat
BY DEF Blank, Char, NUL

\* parse_cmd_byte's statics.
LEMMA StaticsTyped ==
    ASSUME NEW t \in Term, NEW s \in {"READY", "CMD_WAIT", "PARAM_WAIT"}, NEW q \in Seq(Nat),
           s = "PARAM_WAIT" => q # <<>>
    PROVE  LET u == [t EXCEPT !.state = s, !.cparams = q]
           IN  u \in Term /\ u.state = s /\ u.cparams = q
<1> DEFINE u == [t EXCEPT !.state = s, !.cparams = q]
       v == [t EXCEPT !.state = s]
<1>0. v = [state |-> s, cparams |-> t.cparams, fgcolor |-> t.fgcolor, bgcolor |-> t.bgcolor,
           cursor_x |-> t.cursor_x, cursor_y |-> t.cursor_y, screen |-> t.screen]
  <2>1. t = [state |-> t.state, cparams |-> t.cparams, fgcolor |-> t.fgcolor,
             bgcolor |-> t.bgcolor, cursor_x |-> t.cursor_x, cursor_y |-> t.cursor_y,
             screen |-> t.screen]
    BY Zenon DEF Term
  <2> QED BY ONLY <2>1
<1>1. [v EXCEPT !.cparams = q] =
          [state |-> s, cparams |-> q, fgcolor |-> t.fgcolor, bgcolor |-> t.bgcolor,
           cursor_x |-> t.cursor_x, cursor_y |-> t.cursor_y, screen |-> t.screen]
  <2> HIDE DEF v
  <2> QED BY <1>0
<1> HIDE DEF u
<1>2. u \in Term /\ u.state = s /\ u.cparams = q
  BY <1>1 DEF Term, u
<1> QED BY <1>2 DEF u

\* What parse_cmd_byte makes of a byte.
ParseCases(t, byte) ==
    \/ /\ t.state = "READY" /\ byte = ESC
       /\ parse_cmd_byte(t, byte) = Taken([t EXCEPT !.state = "CMD_WAIT"])
    \/ /\ t.state = "CMD_WAIT" /\ byte = "["
       /\ parse_cmd_byte(t, byte) = Taken([t EXCEPT !.state = "PARAM_WAIT", !.cparams = <<0>>])
    \/ /\ t.state = "CMD_WAIT" /\ byte = "c"
       /\ parse_cmd_byte(t, byte) = Taken(Reset(term_clear(t)))
    \/ /\ t.state = "PARAM_WAIT" /\ byte = ";"
       /\ parse_cmd_byte(t, byte) = Taken([t EXCEPT !.cparams = Append(t.cparams, 0)])
    \/ /\ t.state = "PARAM_WAIT" /\ byte = "m"
       /\ parse_cmd_byte(t, byte) = Taken(Reset(Coloured(t)))
    \/ /\ t.state = "PARAM_WAIT" /\ byte \in {"0", "1", "3", "4"}
       /\ parse_cmd_byte(t, byte) =
             Taken([t EXCEPT !.cparams[Len(t.cparams)] = 10*@ + Digit[byte]])
    \/ /\ ~(t.state = "READY" /\ byte = ESC)
       /\ ~(t.state = "CMD_WAIT" /\ byte \in {"[", "c"})
       /\ ~(t.state = "PARAM_WAIT" /\ byte \in {";", "m", "0", "1", "3", "4"})
       /\ parse_cmd_byte(t, byte) = Rejected(t)

LEMMA ParseIs ==
    ASSUME NEW t, NEW byte
    PROVE  ParseCases(t, byte)
<1>1. DOMAIN Digit = {"0", "1", "3", "4"}
  BY DEF Digit
<1>2. CASE t.state = "READY" /\ byte = ESC
  BY <1>2 DEF ParseCases, parse_cmd_byte
<1>3. CASE t.state = "CMD_WAIT" /\ byte = "["
  BY <1>3 DEF ParseCases, parse_cmd_byte
<1>4. CASE t.state = "CMD_WAIT" /\ byte = "c"
  BY <1>4 DEF ParseCases, parse_cmd_byte
<1>5. CASE t.state = "PARAM_WAIT" /\ byte = ";"
  BY <1>1, <1>5 DEF ParseCases, parse_cmd_byte
<1>6. CASE t.state = "PARAM_WAIT" /\ byte = "m"
  BY <1>1, <1>6 DEF ParseCases, parse_cmd_byte
<1>7. CASE t.state = "PARAM_WAIT" /\ byte \in {"0", "1", "3", "4"}
  BY <1>1, <1>7 DEF ParseCases, parse_cmd_byte
<1>8. CASE /\ ~(t.state = "READY" /\ byte = ESC)
           /\ ~(t.state = "CMD_WAIT" /\ byte \in {"[", "c"})
           /\ ~(t.state = "PARAM_WAIT" /\ byte \in {";", "m", "0", "1", "3", "4"})
  <2>1. parse_cmd_byte(t, byte) = Rejected(t)
    BY <1>1, <1>8 DEF parse_cmd_byte
  <2> QED BY <1>8, <2>1 DEF ParseCases
<1> QED BY <1>2, <1>3, <1>4, <1>5, <1>6, <1>7, <1>8

LEMMA ResetTyped ==
    ASSUME NEW t \in Term
    PROVE  Reset(t) \in Wide \cap Term
<1>1. <<>> \in Seq(Nat)
  OBVIOUS
<1>2. Reset(t) \in Term /\ Reset(t).state = "READY" /\ Reset(t).cparams = <<>>
  BY <1>1, StaticsTyped DEF Reset
<1>3. Reset(t) \in Wide
  BY <1>2, SizeType DEF Term, Wide
<1> QED BY <1>2, <1>3

LEMMA ColouredTyped ==
    ASSUME NEW t \in Term, t.state = "PARAM_WAIT"
    PROVE  Coloured(t) \in Term
<1> DEFINE p == t.cparams
           b == IF Len(p) = 2 /\ p[2] = 1 THEN 8 ELSE 0
<1>1. p[1] \in Nat /\ b \in Nat
  BY DEF Term
<1>2. ASSUME NEW f \in Nat PROVE [t EXCEPT !.fgcolor = f] \in Term /\ [t EXCEPT !.bgcolor = f] \in Term
  BY DEF Term
<1>3. [t EXCEPT !.fgcolor = DEFAULT_FGCOLOR, !.bgcolor = DEFAULT_BGCOLOR] \in Term
  BY DEF Term, DEFAULT_FGCOLOR, DEFAULT_BGCOLOR
<1>4. CASE p[1] = 0
  BY <1>3, <1>4 DEF Coloured
<1>5. CASE p[1] \in 30..37
  <2>1. Coloured(t) = [t EXCEPT !.fgcolor = p[1] - 30 + b] /\ p[1] - 30 + b \in Nat
    BY <1>1, <1>5 DEF Coloured
  <2> QED BY <1>2, <2>1
<1>6. CASE p[1] \in 40..47
  <2>1. Coloured(t) = [t EXCEPT !.bgcolor = p[1] - 40 + b] /\ p[1] - 40 + b \in Nat
    BY <1>1, <1>6 DEF Coloured
  <2> QED BY <1>2, <2>1
<1>7. CASE p[1] # 0 /\ p[1] \notin 30..37 /\ p[1] \notin 40..47
  <2>1. Coloured(t) = t
    BY <1>7 DEF Coloured
  <2> QED BY <2>1
<1> QED BY <1>4, <1>5, <1>6, <1>7

LEMMA ClearTyped ==
    ASSUME NEW t \in Term
    PROVE  term_clear(t) \in Term /\ Mode(term_clear(t)) = Mode(t)
<1>1. [cell \in Cell |-> Blank(t.bgcolor)] \in [Cell -> Char \X Nat \X Nat]
  BY BlankType DEF Term
<1>2. term_clear(t) \in Term
  BY <1>1, SizeType DEF term_clear, Term
<1> QED BY <1>2 DEF term_clear, Mode, Term

\* One more digit.
LEMMA DigitTyped ==
    ASSUME NEW t \in Term, t.state = "PARAM_WAIT", NEW byte \in {"0", "1", "3", "4"}
    PROVE  /\ [t EXCEPT !.cparams[Len(t.cparams)] = 10*@ + Digit[byte]] =
                 [t EXCEPT !.cparams = [t.cparams EXCEPT ![Len(t.cparams)] =
                                           10 * t.cparams[Len(t.cparams)] + Digit[byte]]]
           /\ [t EXCEPT !.cparams[Len(t.cparams)] = 10*@ + Digit[byte]] \in Term
<1> DEFINE p == t.cparams
           q == [p EXCEPT ![Len(p)] = 10 * p[Len(p)] + Digit[byte]]
<1>1. p \in Seq(Nat) /\ p # <<>> /\ Len(p) \in DOMAIN p
  BY DEF Term
<1>2. Digit[byte] \in Nat
  BY DEF Digit
<1>3. q \in Seq(Nat) /\ q # <<>>
  <2>1. 10 * p[Len(p)] + Digit[byte] \in Nat
    BY <1>1, <1>2
  <2> QED BY <1>1, <2>1
<1>4. [t EXCEPT !.cparams[Len(t.cparams)] = 10*@ + Digit[byte]] = [t EXCEPT !.cparams = q]
  BY <1>1 DEF Term
<1>5. [t EXCEPT !.cparams = q] \in Term
  <2> HIDE DEF q
  <2> QED BY <1>3 DEF Term
<1> QED BY <1>4, <1>5

LEMMA ParseTyped ==
    ASSUME NEW t \in Term, NEW byte
    PROVE  LET p == parse_cmd_byte(t, byte)
           IN  /\ p.taken \in BOOLEAN
               /\ p.t \in Term
               /\ ~p.taken => p.t \in Wide
               /\ p.taken /\ p.t.state = "READY" => byte \in {"c", "m"}
               /\ p.taken /\ byte = "c" => t.state = "CMD_WAIT"
               /\ p.t.state = "CMD_WAIT" => byte = ESC
<1> DEFINE p == parse_cmd_byte(t, byte)
<1> SUFFICES /\ p.taken \in BOOLEAN
             /\ p.t \in Term
             /\ ~p.taken => p.t \in Wide
             /\ p.taken /\ p.t.state = "READY" => byte \in {"c", "m"}
             /\ p.taken /\ byte = "c" => t.state = "CMD_WAIT"
             /\ p.t.state = "CMD_WAIT" => byte = ESC
  OBVIOUS
<1>1. ParseCases(t, byte)
  BY ParseIs
<1>t. \A u : Taken(u).taken = TRUE /\ Taken(u).t = u
  BY DEF Taken
<1>r. ~Rejected(t).taken /\ Rejected(t).t = Reset(t) /\ Rejected(t).taken \in BOOLEAN
  BY DEF Rejected
<1> HIDE DEF p
<1>2. CASE t.state = "READY" /\ byte = ESC
  <2> DEFINE u == [t EXCEPT !.state = "CMD_WAIT"]
  <2>1. parse_cmd_byte(t, byte) = Taken(u)
    BY <1>1, <1>2 DEF ParseCases
  <2>2. u \in Term /\ u.state = "CMD_WAIT"
    BY <1>2 DEF Term
  <2> HIDE DEF u
  <2> QED BY <1>2, <2>1, <2>2, <1>t DEF p, ESC
<1>3. CASE t.state = "CMD_WAIT" /\ byte = "["
  <2> DEFINE u == [t EXCEPT !.state = "PARAM_WAIT", !.cparams = <<0>>]
  <2>1. parse_cmd_byte(t, byte) = Taken(u)
    BY <1>1, <1>3 DEF ParseCases, ESC
  <2>2. u \in Term /\ u.state = "PARAM_WAIT"
    <3>1. <<0>> \in Seq(Nat) /\ <<0>> # <<>>
      OBVIOUS
    <3> QED BY <3>1, StaticsTyped
  <2> HIDE DEF u
  <2> QED BY <1>3, <2>1, <2>2, <1>t DEF p, ESC
<1>4. CASE t.state = "CMD_WAIT" /\ byte = "c"
  <2>1. parse_cmd_byte(t, byte) = Taken(Reset(term_clear(t)))
    BY <1>1, <1>4 DEF ParseCases, ESC
  <2>2. Reset(term_clear(t)) \in Term /\ Reset(term_clear(t)).state = "READY"
    BY ClearTyped, ResetTyped DEF Wide
  <2> QED BY <1>4, <2>1, <2>2, <1>t DEF p, ESC
<1>5. CASE t.state = "PARAM_WAIT" /\ byte = ";"
  <2> DEFINE u == [t EXCEPT !.cparams = Append(t.cparams, 0)]
  <2>1. parse_cmd_byte(t, byte) = Taken(u)
    BY <1>1, <1>5 DEF ParseCases, ESC
  <2>2. u \in Term /\ u.state = "PARAM_WAIT"
    <3> DEFINE q == Append(t.cparams, 0)
    <3>0. t.cparams \in Seq(Nat)
      BY DEF Term
    <3>1. q \in Seq(Nat) /\ q # <<>>
      BY <3>0
    <3> HIDE DEF q
    <3>2. [t EXCEPT !.cparams = q] \in Term
          /\ [t EXCEPT !.cparams = q].state = "PARAM_WAIT"
      BY <1>5, <3>1 DEF Term
    <3> QED BY <3>2 DEF q
  <2> HIDE DEF u
  <2> QED BY <1>5, <2>1, <2>2, <1>t DEF p, ESC
<1>6. CASE t.state = "PARAM_WAIT" /\ byte = "m"
  <2>1. parse_cmd_byte(t, byte) = Taken(Reset(Coloured(t)))
    BY <1>1, <1>6 DEF ParseCases, ESC
  <2>2. Reset(Coloured(t)) \in Term /\ Reset(Coloured(t)).state = "READY"
    BY <1>6, ColouredTyped, ResetTyped DEF Wide
  <2> QED BY <1>6, <2>1, <2>2, <1>t DEF p, ESC
<1>7. CASE t.state = "PARAM_WAIT" /\ byte \in {"0", "1", "3", "4"}
  <2> DEFINE u == [t EXCEPT !.cparams[Len(t.cparams)] = 10*@ + Digit[byte]]
  <2>1. parse_cmd_byte(t, byte) = Taken(u)
    BY <1>1, <1>7 DEF ParseCases, ESC
  <2>2. u \in Term /\ u.state = "PARAM_WAIT"
    BY <1>7, DigitTyped DEF Term
  <2> HIDE DEF u
  <2> QED BY <1>7, <2>1, <2>2, <1>t DEF p, ESC
<1>8. CASE parse_cmd_byte(t, byte) = Rejected(t)
  <2>1. Reset(t) \in Term /\ Reset(t) \in Wide /\ Reset(t).state = "READY"
    BY ResetTyped DEF Wide
  <2> QED BY <1>8, <2>1, <1>r DEF p
<1> QED BY <1>1, <1>2, <1>3, <1>4, <1>5, <1>6, <1>7, <1>8 DEF ParseCases

\* parse_cmd_byte and what it takes a byte for depend on the statics and the
\* colours only.
LEMMA ModeIs ==
    ASSUME NEW t \in Term, NEW u \in Term, Mode(t) = Mode(u)
    PROVE  t.state = u.state /\ t.cparams = u.cparams /\ t.fgcolor = u.fgcolor
           /\ t.bgcolor = u.bgcolor
BY DEF Mode

LEMMA ModeIf ==
    ASSUME NEW t, NEW u, t.state = u.state, t.cparams = u.cparams, t.fgcolor = u.fgcolor,
           t.bgcolor = u.bgcolor
    PROVE  Mode(t) = Mode(u)
BY DEF Mode

LEMMA ResetMode ==
    ASSUME NEW t \in Term
    PROVE  /\ Reset(t).state = "READY" /\ Reset(t).cparams = <<>>
           /\ Reset(t).fgcolor = t.fgcolor /\ Reset(t).bgcolor = t.bgcolor
<1>1. Reset(t).state = "READY" /\ Reset(t).cparams = <<>>
  BY ResetTyped DEF Wide
<1>2. Reset(t).fgcolor = t.fgcolor /\ Reset(t).bgcolor = t.bgcolor
  BY DEF Reset, Term
<1> QED BY <1>1, <1>2

LEMMA ColouredMode ==
    ASSUME NEW t \in Term, NEW u \in Term, Mode(t) = Mode(u), t.state = "PARAM_WAIT"
    PROVE  Coloured(t).fgcolor = Coloured(u).fgcolor /\ Coloured(t).bgcolor = Coloured(u).bgcolor
<1>0. t.state = u.state /\ t.cparams = u.cparams /\ t.fgcolor = u.fgcolor /\ t.bgcolor = u.bgcolor
  BY ModeIs
<1> DEFINE p == t.cparams
           b == IF Len(p) = 2 /\ p[2] = 1 THEN 8 ELSE 0
<1>1. p[1] \in Nat /\ p = u.cparams
  BY <1>0 DEF Term
<1>2. CASE p[1] = 0
  <2>1. /\ Coloured(t) = [t EXCEPT !.fgcolor = DEFAULT_FGCOLOR, !.bgcolor = DEFAULT_BGCOLOR]
        /\ Coloured(u) = [u EXCEPT !.fgcolor = DEFAULT_FGCOLOR, !.bgcolor = DEFAULT_BGCOLOR]
    BY <1>1, <1>2 DEF Coloured
  <2> QED BY <2>1 DEF Term
<1>3. CASE p[1] \in 30..37
  <2>1. /\ Coloured(t) = [t EXCEPT !.fgcolor = p[1] - 30 + b]
        /\ Coloured(u) = [u EXCEPT !.fgcolor = p[1] - 30 + b]
    BY <1>1, <1>3 DEF Coloured
  <2> HIDE DEF b
  <2> QED BY <1>0, <2>1 DEF Term
<1>4. CASE p[1] \in 40..47
  <2>1. /\ Coloured(t) = [t EXCEPT !.bgcolor = p[1] - 40 + b]
        /\ Coloured(u) = [u EXCEPT !.bgcolor = p[1] - 40 + b]
    BY <1>1, <1>4 DEF Coloured
  <2> HIDE DEF b
  <2> QED BY <1>0, <2>1 DEF Term
<1>5. CASE p[1] # 0 /\ p[1] \notin 30..37 /\ p[1] \notin 40..47
  <2>1. Coloured(t) = t /\ Coloured(u) = u
    BY <1>1, <1>5 DEF Coloured
  <2> QED BY <1>0, <2>1
<1> QED BY <1>2, <1>3, <1>4, <1>5

LEMMA ParseMode ==
    ASSUME NEW t \in Term, NEW u \in Term, Mode(t) = Mode(u), NEW byte
    PROVE  /\ parse_cmd_byte(t, byte).taken = parse_cmd_byte(u, byte).taken
           /\ Mode(parse_cmd_byte(t, byte).t) = Mode(parse_cmd_byte(u, byte).t)
<1> DEFINE p == parse_cmd_byte(t, byte)
           q == parse_cmd_byte(u, byte)
<1>p. ParseCases(t, byte) /\ ParseCases(u, byte)
  BY ParseIs
<1>m. t.state = u.state /\ t.cparams = u.cparams /\ t.fgcolor = u.fgcolor /\ t.bgcolor = u.bgcolor
  BY ModeIs
<1>t. \A v : Taken(v).taken = TRUE /\ Taken(v).t = v
  BY DEF Taken
<1>r. \A v : Rejected(v).taken = FALSE /\ Rejected(v).t = Reset(v)
  BY DEF Rejected
<1>e. ESC = "e"
  BY DEF ESC
<1>x. ASSUME NEW v \in Term, NEW w \in Term, v.fgcolor = w.fgcolor, v.bgcolor = w.bgcolor
      PROVE  Mode(Reset(v)) = Mode(Reset(w))
  BY <1>x, ResetMode, ModeIf
<1> HIDE DEF p, q
<1>1. CASE t.state = "READY" /\ byte = ESC
  <2> DEFINE v == [t EXCEPT !.state = "CMD_WAIT"]
             w == [u EXCEPT !.state = "CMD_WAIT"]
  <2>1. p = Taken(v) /\ q = Taken(w)
    BY <1>1, <1>p, <1>m, <1>e DEF ParseCases, p, q
  <2>2. Mode(v) = Mode(w)
    <3>1. v.state = w.state /\ v.cparams = w.cparams /\ v.fgcolor = w.fgcolor /\ v.bgcolor = w.bgcolor
      BY <1>m DEF Term
    <3> QED BY <3>1, ModeIf
  <2> HIDE DEF v, w
  <2> QED BY <2>1, <2>2, <1>t DEF p, q
<1>2. CASE t.state = "CMD_WAIT" /\ byte = "["
  <2> DEFINE v == [t EXCEPT !.state = "PARAM_WAIT", !.cparams = <<0>>]
             w == [u EXCEPT !.state = "PARAM_WAIT", !.cparams = <<0>>]
  <2>1. p = Taken(v) /\ q = Taken(w)
    BY <1>2, <1>p, <1>m, <1>e DEF ParseCases, p, q
  <2>2. Mode(v) = Mode(w)
    <3>1. v.fgcolor = w.fgcolor /\ v.bgcolor = w.bgcolor
      BY <1>m DEF Term
    <3>2. v.state = w.state /\ v.cparams = w.cparams
      <4>1. <<0>> \in Seq(Nat) /\ <<0>> # <<>>
        OBVIOUS
      <4> DEFINE z == <<0>>
      <4> HIDE DEF z
      <4>2. ASSUME NEW y \in Term
            PROVE  /\ [y EXCEPT !.state = "PARAM_WAIT", !.cparams = z].state = "PARAM_WAIT"
                   /\ [y EXCEPT !.state = "PARAM_WAIT", !.cparams = z].cparams = z
        BY <4>1, StaticsTyped DEF z
      <4> QED BY <4>2 DEF z
    <3> HIDE DEF v, w
    <3> QED BY <3>1, <3>2, ModeIf
  <2> HIDE DEF v, w
  <2> QED BY <2>1, <2>2, <1>t DEF p, q
<1>3. CASE t.state = "CMD_WAIT" /\ byte = "c"
  <2>1. p = Taken(Reset(term_clear(t))) /\ q = Taken(Reset(term_clear(u)))
    BY <1>3, <1>p, <1>m, <1>e DEF ParseCases, p, q
  <2>2. Mode(Reset(term_clear(t))) = Mode(Reset(term_clear(u)))
    <3>1. term_clear(t) \in Term /\ term_clear(u) \in Term
          /\ Mode(term_clear(t)) = Mode(term_clear(u))
      BY ClearTyped
    <3> QED BY <3>1, ModeIs, <1>x
  <2> QED BY <2>1, <2>2, <1>t DEF p, q
<1>4. CASE t.state = "PARAM_WAIT" /\ byte = ";"
  <2> DEFINE a == Append(t.cparams, 0)
             v == [t EXCEPT !.cparams = a]
             w == [u EXCEPT !.cparams = a]
  <2>1. p = Taken(v) /\ q = Taken(w)
    BY <1>4, <1>p, <1>m, <1>e DEF ParseCases, p, q
  <2>2. Mode(v) = Mode(w)
    <3> HIDE DEF a
    <3>1. v.state = w.state /\ v.cparams = w.cparams /\ v.fgcolor = w.fgcolor /\ v.bgcolor = w.bgcolor
      BY <1>m DEF Term
    <3> QED BY <3>1, ModeIf
  <2> HIDE DEF v, w
  <2> QED BY <2>1, <2>2, <1>t DEF p, q
<1>5. CASE t.state = "PARAM_WAIT" /\ byte = "m"
  <2>1. p = Taken(Reset(Coloured(t))) /\ q = Taken(Reset(Coloured(u)))
    BY <1>5, <1>p, <1>m, <1>e DEF ParseCases, p, q
  <2>2. Mode(Reset(Coloured(t))) = Mode(Reset(Coloured(u)))
    <3>1. Coloured(t) \in Term /\ Coloured(u) \in Term
      BY <1>5, <1>m, ColouredTyped
    <3>2. Coloured(t).fgcolor = Coloured(u).fgcolor /\ Coloured(t).bgcolor = Coloured(u).bgcolor
      BY <1>5, ColouredMode
    <3> QED BY <3>1, <3>2, <1>x
  <2> QED BY <2>1, <2>2, <1>t DEF p, q
<1>6. CASE t.state = "PARAM_WAIT" /\ byte \in {"0", "1", "3", "4"}
  <2> DEFINE v0 == [t EXCEPT !.cparams[Len(t.cparams)] = 10*@ + Digit[byte]]
             w0 == [u EXCEPT !.cparams[Len(u.cparams)] = 10*@ + Digit[byte]]
             a == [t.cparams EXCEPT ![Len(t.cparams)] = 10 * t.cparams[Len(t.cparams)] + Digit[byte]]
             v == [t EXCEPT !.cparams = a]
             w == [u EXCEPT !.cparams = a]
  <2>1. p = Taken(v0) /\ q = Taken(w0)
    BY <1>6, <1>p, <1>m, <1>e DEF ParseCases, p, q
  <2>2. v0 = v
    BY <1>6, DigitTyped
  <2>3. w0 = w
    <3>1. w0 = [u EXCEPT !.cparams = [u.cparams EXCEPT ![Len(u.cparams)] =
                                           10 * u.cparams[Len(u.cparams)] + Digit[byte]]]
      BY <1>6, <1>m, DigitTyped
    <3> HIDE DEF w0
    <3> QED BY <3>1, <1>m
  <2>4. Mode(v) = Mode(w)
    <3> HIDE DEF a
    <3>1. v.state = w.state /\ v.cparams = w.cparams /\ v.fgcolor = w.fgcolor /\ v.bgcolor = w.bgcolor
      BY <1>m DEF Term
    <3> QED BY <3>1, ModeIf
  <2> HIDE DEF v, w, v0, w0
  <2> QED BY <2>1, <2>2, <2>3, <2>4, <1>t DEF p, q
<1>7. CASE p = Rejected(t) /\ q = Rejected(u)
  <2>1. Mode(Reset(t)) = Mode(Reset(u))
    BY <1>m, <1>x
  <2> QED BY <1>7, <2>1, <1>r DEF p, q
<1>8. \/ t.state = "READY" /\ byte = ESC
      \/ t.state = "CMD_WAIT" /\ byte = "["
      \/ t.state = "CMD_WAIT" /\ byte = "c"
      \/ t.state = "PARAM_WAIT" /\ byte = ";"
      \/ t.state = "PARAM_WAIT" /\ byte = "m"
      \/ t.state = "PARAM_WAIT" /\ byte \in {"0", "1", "3", "4"}
      \/ p = Rejected(t) /\ q = Rejected(u)
  BY <1>p, <1>m DEF ParseCases, p, q
<1> QED BY <1>1, <1>2, <1>3, <1>4, <1>5, <1>6, <1>7, <1>8 DEF p, q

-----------------------------------------------------------------------------
(* term_putchar. *)

\* A record of Wide, field by field.
LEMMA WideIs ==
    ASSUME NEW t \in Wide
    PROVE  /\ t.state = "READY" /\ t.cparams = <<>> /\ t.fgcolor \in Nat /\ t.bgcolor \in Nat
           /\ t.cursor_x \in Nat /\ t.cursor_y \in 0..term_height
           /\ t.screen \in [Cell -> Char \X Nat \X Nat]
BY DEF Wide

\* The same with another cursor and another screen.
With(t, x, y, s) == [state |-> t.state, cparams |-> t.cparams, fgcolor |-> t.fgcolor,
                     bgcolor |-> t.bgcolor, cursor_x |-> x, cursor_y |-> y, screen |-> s]

SameMode(t, u) == t.fgcolor = u.fgcolor /\ t.bgcolor = u.bgcolor

LEMMA WithIs ==
    ASSUME NEW t \in Wide, NEW x \in Nat, NEW y \in 0..term_height,
           NEW s \in [Cell -> Char \X Nat \X Nat]
    PROVE  LET u == With(t, x, y, s)
           IN  /\ u \in Wide /\ SameMode(u, t)
               /\ u.state = "READY" /\ u.cparams = <<>>
               /\ u.cursor_x = x /\ u.cursor_y = y /\ u.screen = s
               /\ x < term_width /\ y < term_height => u \in Term
<1> DEFINE u == With(t, x, y, s)
<1>1. t.state = "READY" /\ t.cparams = <<>> /\ t.fgcolor \in Nat /\ t.bgcolor \in Nat
  BY WideIs
<1>2. u \in Wide
  BY <1>1 DEF With, Wide
<1>3. SameMode(u, t) /\ u.state = "READY" /\ u.cparams = <<>>
      /\ u.cursor_x = x /\ u.cursor_y = y /\ u.screen = s
  BY <1>1 DEF With, SameMode
<1>4. ASSUME x < term_width, y < term_height PROVE u \in Term
  <2>1. x \in 0..term_width-1 /\ y \in 0..term_height-1
    BY <1>4, SizeType
  <2>2. <<>> \in Seq(Nat)
    OBVIOUS
  <2> QED BY <1>1, <2>1, <2>2 DEF With, Term
<1> QED BY <1>2, <1>3, <1>4

LEMMA WithItself ==
    ASSUME NEW t \in Wide
    PROVE  t = With(t, t.cursor_x, t.cursor_y, t.screen)
BY Zenon DEF With, Wide

LEMMA NewLineIs ==
    ASSUME NEW t \in Wide, t.cursor_y < term_height
    PROVE  /\ NewLine(t) \in Wide /\ SameMode(NewLine(t), t)
           /\ NewLine(t).cursor_x = 0 /\ NewLine(t).cursor_y = t.cursor_y + 1
           /\ NewLine(t).screen = t.screen
<1> DEFINE y == t.cursor_y + 1
<1>1. y \in 0..term_height
  BY SizeType DEF Wide
<1>2. NewLine(t) = [t EXCEPT !.cursor_x = 0, !.cursor_y = y]
  BY DEF NewLine, Wide
<1> HIDE DEF y
<1>3. NewLine(t) = With(t, 0, y, t.screen)
  <2>1. t = With(t, t.cursor_x, t.cursor_y, t.screen)
    BY WithItself
  <2> QED BY ONLY <2>1, <1>2 DEF With
<1> QED BY <1>1, <1>3, WideIs, WithIs DEF y

LEMMA putchar_atIs ==
    ASSUME NEW t \in Wide, NEW c \in Char, t.cursor_y < term_height, t.cursor_x < term_width
    PROVE  LET u == putchar_at(t, c)
           IN  /\ u \in Wide /\ SameMode(u, t)
               /\ u.cursor_x = t.cursor_x + 1 /\ u.cursor_y = t.cursor_y
               /\ u.screen[<<t.cursor_y, t.cursor_x>>][1] = c
<1> DEFINE u == putchar_at(t, c)
           x == t.cursor_x + 1
           cell == <<t.cursor_y, t.cursor_x>>
           ch == <<c, t.fgcolor, t.bgcolor>>
           s == [t.screen EXCEPT ![cell] = ch]
<1>1. x \in Nat /\ ch \in Char \X Nat \X Nat /\ cell \in Cell
  BY SizeType DEF Wide, Cell
<1>2. u = [t EXCEPT !.screen = s, !.cursor_x = x]
  BY DEF putchar_at, Wide
<1>3. s \in [Cell -> Char \X Nat \X Nat] /\ s[cell] = ch
  BY <1>1 DEF Wide
<1>4. ch[1] = c
  OBVIOUS
<1> HIDE DEF u, x, cell, ch, s
<1>5. u \in Wide
  BY <1>1, <1>2, <1>3 DEF Wide
<1>6. u.cursor_x = x /\ u.screen = s
  BY <1>2 DEF Wide
<1>7. SameMode(u, t) /\ u.cursor_y = t.cursor_y
  BY <1>2 DEF Wide, SameMode
<1> QED BY <1>3, <1>4, <1>5, <1>6, <1>7 DEF u, x, cell

LEMMA DrawnIs ==
    ASSUME NEW t \in Wide, NEW c \in Char, t.cursor_y < term_height, t.cursor_x < term_width
    PROVE  LET u == Drawn(t, c)
           IN  /\ u \in Wide /\ SameMode(u, t)
               /\ u.cursor_y < term_height \/ u.cursor_x = 0
               /\ c \notin {"\n", "\t"} => u = putchar_at(t, c)
<1>1. CASE c = "\n"
  <2>1. Drawn(t, c) = NewLine(t)
    BY <1>1, Zenon DEF Drawn
  <2> QED BY <1>1, <2>1, NewLineIs
<1>2. CASE c = "\t"
  <2> DEFINE x == 4 * ((t.cursor_x + 3) \div 4)
             u == [t EXCEPT !.cursor_x = x]
  <2>0. "\t" # "\n"
    OBVIOUS
  <2>1. Drawn(t, c) = [t EXCEPT !.cursor_x = 4 * ((@ + 3) \div 4)]
    BY <1>2, <2>0, Zenon DEF Drawn
  <2>2. Drawn(t, c) = u
    BY <2>1 DEF Wide
  <2>3. x \in Nat
    BY DEF Wide
  <2> HIDE DEF x
  <2>4. u \in Wide /\ SameMode(u, t) /\ u.cursor_y = t.cursor_y
    BY <2>3 DEF Wide, SameMode
  <2> HIDE DEF u
  <2> QED BY <1>2, <2>2, <2>4
<1>3. CASE c \notin {"\n", "\t"}
  <2>1. Drawn(t, c) = putchar_at(t, c)
    <3>1. c # "\n" /\ c # "\t"
      BY <1>3
    <3> QED BY <3>1 DEF Drawn
  <2> DEFINE u == putchar_at(t, c)
  <2>2. u \in Wide /\ SameMode(u, t) /\ u.cursor_y = t.cursor_y
    BY putchar_atIs
  <2> HIDE DEF u
  <2>3. Drawn(t, c) = u
    BY <2>1 DEF u
  <2> QED BY <2>1, <2>2, <2>3
<1> QED BY <1>1, <1>2, <1>3

\* The cursor after a line that is full.
LEMMA WrappedIs ==
    ASSUME NEW t \in Wide, t.cursor_y < term_height \/ t.cursor_x = 0
    PROVE  LET u == Wrapped(t)
           IN  /\ u \in Wide /\ SameMode(u, t) /\ u.cursor_x < term_width
               /\ u.screen = t.screen
               /\ IF t.cursor_x >= term_width
                  THEN u.cursor_x = 0 /\ u.cursor_y = t.cursor_y + 1
                  ELSE u.cursor_x = t.cursor_x /\ u.cursor_y = t.cursor_y
<1>1. t.cursor_x \in Nat /\ term_width \in Nat \ {0}
  BY SizeType, WideIs
<1>2. CASE t.cursor_x >= term_width
  <2>1. Wrapped(t) = NewLine(t) /\ t.cursor_y < term_height
    BY <1>1, <1>2 DEF Wrapped
  <2> QED BY <1>1, <1>2, <2>1, NewLineIs
<1>3. CASE ~(t.cursor_x >= term_width)
  <2>1. Wrapped(t) = t
    BY <1>3 DEF Wrapped
  <2> QED BY <1>1, <1>3, <2>1 DEF SameMode
<1> QED BY <1>2, <1>3

LEMMA ScrolledIs ==
    ASSUME NEW t \in Wide, t.cursor_x < term_width
    PROVE  LET u == Scrolled(t)
           IN  /\ u \in Term /\ SameMode(u, t) /\ u.state = "READY" /\ u.cparams = <<>>
               /\ u.cursor_x = t.cursor_x
               /\ IF t.cursor_y = term_height
                  THEN /\ u.cursor_y = term_height - 1
                       /\ \A cell \in Cell : cell[1] < term_height - 1 =>
                              u.screen[cell] = t.screen[<<cell[1]+1, cell[2]>>]
                  ELSE u = t
<1>0. term_height \in Nat \ {0} /\ t.cursor_y \in 0..term_height /\ t.cursor_x \in 0..term_width-1
      /\ term_width \in Nat
  BY SizeType, WideIs
<1>1. CASE t.cursor_y = term_height
  <2> DEFINE s == [cell \in Cell |->
                      IF cell[1] < term_height-1 THEN t.screen[<<cell[1]+1, cell[2]>>]
                      ELSE Blank(t.bgcolor)]
             y == term_height - 1
             u == [t EXCEPT !.screen = s, !.cursor_y = y]
  <2>1. Scrolled(t) = u
    <3>1. Scrolled(t) = [[t EXCEPT !.screen = s] EXCEPT !.cursor_y = y]
      BY <1>0, <1>1 DEF Scrolled, scroll
    <3> QED BY <3>1
  <2>2. s \in [Cell -> Char \X Nat \X Nat]
    <3>1. ASSUME NEW cell \in Cell, cell[1] < term_height - 1
          PROVE  t.screen[<<cell[1]+1, cell[2]>>] \in Char \X Nat \X Nat
      <4>1. <<cell[1]+1, cell[2]>> \in Cell
        BY <1>0, <3>1 DEF Cell
      <4> QED BY <4>1, WideIs
    <3>2. Blank(t.bgcolor) \in Char \X Nat \X Nat
      BY BlankType, WideIs
    <3> QED BY <3>1, <3>2
  <2>3. y \in 0..term_height-1
    BY <1>0
  <2>4. \A cell \in Cell : cell[1] < term_height - 1 =>
            s[cell] = t.screen[<<cell[1]+1, cell[2]>>]
    OBVIOUS
  <2> HIDE DEF s, y
  <2>5. u = With(t, t.cursor_x, y, s)
    <3>1. t = With(t, t.cursor_x, t.cursor_y, t.screen)
      BY WithItself
    <3>2. u = [t EXCEPT !.screen = s, !.cursor_y = y]
      OBVIOUS
    <3> HIDE DEF u
    <3> QED BY ONLY <3>1, <3>2 DEF With
  <2> HIDE DEF u
  <2>6. y < term_height /\ y \in 0..term_height
    BY <1>0, <2>3
  <2>7. /\ u \in Term /\ SameMode(u, t) /\ u.state = "READY" /\ u.cparams = <<>>
        /\ u.cursor_x = t.cursor_x /\ u.cursor_y = y /\ u.screen = s
    <3>1. t.cursor_x \in Nat /\ t.cursor_x < term_width
      BY <1>0
    <3> DEFINE v == With(t, t.cursor_x, y, s)
    <3>2. /\ v \in Wide /\ SameMode(v, t) /\ v.state = "READY" /\ v.cparams = <<>>
          /\ v.cursor_x = t.cursor_x /\ v.cursor_y = y /\ v.screen = s
          /\ t.cursor_x < term_width /\ y < term_height => v \in Term
      BY <2>2, <2>6, <3>1, WithIs
    <3> QED BY <2>5, <2>6, <3>1, <3>2
  <2>8. u.cursor_y = term_height - 1
    BY <2>7 DEF y
  <2>9. \A cell \in Cell : cell[1] < term_height - 1 =>
            u.screen[cell] = t.screen[<<cell[1]+1, cell[2]>>]
    BY <2>4, <2>7
  <2> QED BY <1>1, <2>1, <2>7, <2>8, <2>9
<1>2. CASE t.cursor_y # term_height
  <2>1. t.cursor_y \in 0..term_height-1 /\ t.cursor_y < term_height
    BY <1>0, <1>2
  <2>3. Scrolled(t) = t
    BY <1>0, <2>1 DEF Scrolled
  <2>2. t \in Term
    BY <1>0, <2>1, WideIs, WithItself, WithIs
  <2> QED BY <1>0, <1>2, <2>1, <2>2, <2>3, WideIs DEF SameMode
<1> QED BY <1>1, <1>2

\* term_putchar, as a whole.
LEMMA PutcharIs ==
    ASSUME NEW t \in Term, NEW c \in Char
    PROVE  LET u == term_putchar(t, c)
               p == parse_cmd_byte(t, c)
           IN  /\ u \in Term
               /\ p.taken => u = p.t
               /\ ~p.taken => /\ u.state = "READY" /\ u.cparams = <<>>
                              /\ u.fgcolor = p.t.fgcolor /\ u.bgcolor = p.t.bgcolor
               /\ Mode(u) = Mode(p.t)
<1> DEFINE u == term_putchar(t, c)
           p == parse_cmd_byte(t, c)
           v == Drawn(p.t, c)
           w == Wrapped(v)
<1>0. /\ p.taken \in BOOLEAN /\ p.t \in Term
      /\ ~p.taken => p.t \in Wide
  BY ParseTyped
<1>1. CASE p.taken
  <2>1. u = p.t
    BY <1>1 DEF term_putchar
  <2> QED BY <1>0, <1>1, <2>1
<1>2. CASE ~p.taken
  <2>1. u = Scrolled(w)
    BY <1>2 DEF term_putchar
  <2>2. p.t \in Wide /\ p.t.cursor_y < term_height /\ p.t.cursor_x < term_width
    <3> HIDE DEF p, u, v, w
    <3>1. p.t.cursor_y \in 0..term_height-1 /\ p.t.cursor_x \in 0..term_width-1
      BY <1>0 DEF Term
    <3>2. \A m \in Nat : \A x \in 0..m-1 : x < m
      BY ONLY TRUE
    <3>3. p.t.cursor_y < term_height /\ p.t.cursor_x < term_width
      BY ONLY <3>1, <3>2, SizeType
    <3> QED BY <1>0, <1>2, <3>3
  <2> HIDE DEF u, p, v, w
  <2>3. v \in Wide /\ SameMode(v, p.t) /\ (v.cursor_y < term_height \/ v.cursor_x = 0)
    BY <2>2, DrawnIs DEF v
  <2>4. w \in Wide /\ SameMode(w, v) /\ w.cursor_x < term_width
    BY <2>3, WrappedIs DEF w
  <2>5. u \in Term /\ SameMode(u, w) /\ u.state = "READY" /\ u.cparams = <<>>
    BY <2>1, <2>4, ScrolledIs
  <2>6. u.fgcolor = p.t.fgcolor /\ u.bgcolor = p.t.bgcolor
    BY <2>3, <2>4, <2>5 DEF SameMode
  <2>7. Mode(u) = Mode(p.t)
    BY <2>2, <2>5, <2>6, WideIs, ModeIf
  <2> QED BY <1>2, <2>5, <2>6, <2>7 DEF u, p
<1> QED BY <1>1, <1>2

LEMMA PutcharMode ==
    ASSUME NEW t \in Term, NEW u \in Term, Mode(t) = Mode(u), NEW c \in Char
    PROVE  Mode(term_putchar(t, c)) = Mode(term_putchar(u, c))
BY PutcharIs, ParseMode

\* A character that is drawn is in front of the cursor.
LEMMA PutcharShows ==
    ASSUME NEW t \in Term, NEW c \in Char, c \notin {"\n", "\t"}, term_height > 1,
           ~parse_cmd_byte(t, c).taken
    PROVE  LET u == term_putchar(t, c)
           IN  BeforeCursor(u) \in Cell /\ u.screen[BeforeCursor(u)][1] = c
<1> DEFINE u == term_putchar(t, c)
           r == parse_cmd_byte(t, c).t
           v == Drawn(r, c)
           w == Wrapped(v)
           before == BeforeCursor(u)
<1>0. term_height \in Nat \ {0, 1} /\ term_width \in Nat \ {0}
  BY SizeType
<1>1. r \in Wide /\ r \in Term /\ r.cursor_y \in 0..term_height-1 /\ r.cursor_x \in 0..term_width-1
  BY ParseTyped DEF Term
<1>2. u = Scrolled(w)
  BY DEF term_putchar
<1> HIDE DEF u, r, v, w
<1>3. /\ v \in Wide /\ v.cursor_x = r.cursor_x + 1 /\ v.cursor_y = r.cursor_y
      /\ v.screen[<<r.cursor_y, r.cursor_x>>][1] = c
  <2>1. r.cursor_y < term_height /\ r.cursor_x < term_width
    BY <1>0, <1>1
  <2>2. v = putchar_at(r, c)
    BY <1>1, <2>1, DrawnIs DEF v
  <2> QED BY <1>1, <2>1, <2>2, putchar_atIs
<1>4. /\ w \in Wide /\ w.cursor_x < term_width /\ w.screen = v.screen
      /\ IF v.cursor_x >= term_width
         THEN w.cursor_x = 0 /\ w.cursor_y = v.cursor_y + 1
         ELSE w.cursor_x = v.cursor_x /\ w.cursor_y = v.cursor_y
  <2>1. v.cursor_y < term_height
    BY <1>0, <1>1, <1>3
  <2> QED BY <1>3, <2>1, WrappedIs DEF w
<1>5. CASE w.cursor_y = term_height
  <2>1. /\ r.cursor_x = term_width - 1 /\ r.cursor_y = term_height - 1
        /\ w.cursor_x = 0
    BY <1>0, <1>1, <1>3, <1>4, <1>5
  <2>2. /\ u.cursor_x = 0 /\ u.cursor_y = term_height - 1
        /\ \A cell \in Cell : cell[1] < term_height - 1 =>
               u.screen[cell] = w.screen[<<cell[1]+1, cell[2]>>]
    BY <1>2, <1>4, <1>5, <2>1, ScrolledIs
  <2> DEFINE cell == <<term_height-2, term_width-1>>
  <2>3. /\ cell \in Cell /\ cell[1] < term_height - 1
        /\ <<cell[1]+1, cell[2]>> = <<term_height-1, term_width-1>>
    BY <1>0 DEF Cell
  <2>4. before = cell
    BY <1>0, <2>2 DEF BeforeCursor
  <2>5. u.screen[cell] = w.screen[<<term_height-1, term_width-1>>]
    BY <2>2, <2>3
  <2> HIDE DEF cell, before
  <2> QED BY <1>3, <1>4, <2>1, <2>3, <2>4, <2>5 DEF before, u
<1>6. CASE w.cursor_y # term_height
  <2>1. u = w
    BY <1>2, <1>4, <1>6, ScrolledIs
  <2>2. before = <<r.cursor_y, r.cursor_x>>
    BY <1>0, <1>1, <1>3, <1>4, <2>1 DEF BeforeCursor
  <2>3. before \in Cell
    BY <1>1, <2>2 DEF Cell
  <2>4. u.screen[before][1] = c
    BY <1>3, <1>4, <2>1, <2>2
  <2> HIDE DEF before
  <2> QED BY <2>3, <2>4 DEF before, u
<1> QED BY <1>5, <1>6

-----------------------------------------------------------------------------
(* A text that is drawn, character by character.                           *)

LEMMA DrawingIs ==
    ASSUME NEW t \in Term, NEW s \in Seq(Char)
    PROVE  /\ Drawing(t, s) \in [0..Len(s) -> Term]
           /\ Drawing(t, s)[0] = t
           /\ \A k \in 1..Len(s) : Drawing(t, s)[k] = term_putchar(Drawing(t, s)[k-1], s[k])
<1> DEFINE n == Len(s)
           R(f) == [k \in 0..n |-> IF k = 0 THEN t ELSE term_putchar(f[k-1], s[k])]
           after == CHOOSE f : f = R(f)
           F == [k \in 1..n |-> [u \in Term |-> term_putchar(u, s[k])]]
<1>1. n \in Nat
  OBVIOUS
<1>2. \A k \in 1..n : s[k] \in Char
  OBVIOUS
<1>3. F \in [1..n -> [Term -> Term]]
  <2>1. \A u \in Term, c \in Char : term_putchar(u, c) \in Term
    BY PutcharIs
  <2> QED BY <1>2, <2>1
<1>4. Drawing(t, s) = after
  BY DEF Drawing
<1> HIDE DEF n
<1>5. \E f : f = R(f)
  <2>0. \A k \in 1..n, u \in Term : F[k][u] = term_putchar(u, s[k])
    OBVIOUS
  <2> HIDE DEF F
  <2>1. PICK f \in [0..n -> Term] : f[0] = t /\ \A k \in 1..n : f[k] = F[k][f[k-1]]
    <3>1. Induction!Iterates(n, Term, t, F)
      BY <1>1, <1>3, Induction!Iterated
    <3> QED BY <3>1 DEF Induction!Iterates
  <2>2. \A k \in 0..n : k # 0 => k \in 1..n /\ k-1 \in 0..n
    BY <1>1
  <2>3. \A k \in 0..n : k # 0 => f[k-1] \in Term
    BY <2>2
  <2>4. \A k \in 0..n : f[k] = IF k = 0 THEN t ELSE term_putchar(f[k-1], s[k])
    BY <2>0, <2>1, <2>2, <2>3
  <2>5. f = [k \in 0..n |-> f[k]]
    OBVIOUS
  <2>6. f = R(f)
    BY <2>4, <2>5
  <2> QED BY <2>6
<1>6. after = R(after)
  BY <1>5
<1> HIDE DEF after
<1>7. after = [k \in 0..n |-> after[k]]
  BY <1>6
<1>8. after[0] = t /\ \A k \in 1..n : after[k] = term_putchar(after[k-1], s[k])
  <2>1. \A k \in 0..n : after[k] = IF k = 0 THEN t ELSE term_putchar(after[k-1], s[k])
    BY <1>6
  <2> QED BY <2>1, <1>1
<1>9. \A k \in 0..n : after[k] \in Term
  <2> DEFINE G == {k \in 0..n : after[k] \in Term}
  <2>1. 0 \in G
    BY <1>1, <1>8
  <2>2. \A k \in 1..n : k-1 \in G => k \in G
    <3>1. ASSUME NEW k \in 1..n, after[k-1] \in Term PROVE after[k] \in Term
      <4>1. s[k] \in Char /\ after[k] = term_putchar(after[k-1], s[k])
        BY <1>2, <1>8 DEF n
      <4> HIDE DEF R
      <4> QED BY <3>1, <4>1, PutcharIs
    <3> QED BY <3>1
  <2>3. \A k \in 0..n : k \in G
    <3> HIDE DEF G
    <3> QED BY <2>1, <2>2, <1>1, Induction!UpTo
  <2> QED BY <2>3
<1> QED BY <1>4, <1>7, <1>8, <1>9 DEF n

\* The mode after a character depends on the mode before the text only, and
\* nothing depends on what follows.
LEMMA DrawingMode ==
    ASSUME NEW t \in Term, NEW u \in Term, Mode(t) = Mode(u),
           NEW r \in Seq(Char), NEW s \in Seq(Char), NEW n \in Nat,
           n <= Len(r), n <= Len(s), \A k \in 1..n : r[k] = s[k]
    PROVE  \A k \in 0..n : Mode(Drawing(t, r)[k]) = Mode(Drawing(u, s)[k])
<1> DEFINE D == Drawing(t, r)
           E == Drawing(u, s)
           G == {k \in 0..n : Mode(D[k]) = Mode(E[k])}
<1>1. /\ D \in [0..Len(r) -> Term] /\ D[0] = t
      /\ \A k \in 1..Len(r) : D[k] = term_putchar(D[k-1], r[k])
  BY DrawingIs
<1>2. /\ E \in [0..Len(s) -> Term] /\ E[0] = u
      /\ \A k \in 1..Len(s) : E[k] = term_putchar(E[k-1], s[k])
  BY DrawingIs
<1> HIDE DEF D, E
<1>3. 0 \in G
  BY <1>1, <1>2
<1>4. ASSUME NEW k \in 1..n, k-1 \in G PROVE k \in G
  <2>1. k \in 1..Len(r) /\ k \in 1..Len(s) /\ k-1 \in 0..Len(r) /\ k-1 \in 0..Len(s)
        /\ k \in 0..n
    OBVIOUS
  <2>2. D[k-1] \in Term /\ E[k-1] \in Term /\ Mode(D[k-1]) = Mode(E[k-1])
    BY <1>1, <1>2, <1>4, <2>1
  <2>3. r[k] = s[k] /\ r[k] \in Char
    BY <2>1
  <2>4. D[k] = term_putchar(D[k-1], r[k]) /\ E[k] = term_putchar(E[k-1], r[k])
    BY <1>1, <1>2, <2>1, <2>3
  <2>5. Mode(D[k]) = Mode(E[k])
    BY <2>2, <2>3, <2>4, PutcharMode
  <2> QED BY <2>1, <2>5
<1>5. \A k \in 0..n : k \in G
  <2> HIDE DEF G
  <2> QED BY <1>3, <1>4, Induction!UpTo
<1> QED BY <1>5 DEF D, E

\* A text drawn in two parts.
LEMMA DrawingOn ==
    ASSUME NEW t \in Term, NEW s \in Seq(Char), NEW m \in 0..Len(s),
           NEW r \in Seq(Char), Len(r) = Len(s) - m, \A k \in 1..Len(r) : r[k] = s[m+k]
    PROVE  \A k \in 0..Len(r) : Drawing(Drawing(t, s)[m], r)[k] = Drawing(t, s)[m+k]
<1> DEFINE D == Drawing(t, s)
           E == Drawing(D[m], r)
           G == {k \in 0..Len(r) : E[k] = D[m+k]}
<1>1. /\ D \in [0..Len(s) -> Term]
      /\ \A k \in 1..Len(s) : D[k] = term_putchar(D[k-1], s[k])
  BY DrawingIs
<1>2. D[m] \in Term
  BY <1>1
<1>3. E[0] = D[m] /\ \A k \in 1..Len(r) : E[k] = term_putchar(E[k-1], r[k])
  BY <1>2, DrawingIs
<1> HIDE DEF D, E
<1>4. 0 \in G
  BY <1>3
<1>5. ASSUME NEW k \in 1..Len(r), k-1 \in G PROVE k \in G
  <2>1. m+k \in 1..Len(s) /\ (m+k)-1 = m+(k-1)
    OBVIOUS
  <2>2. D[m+k] = term_putchar(D[m+(k-1)], r[k])
    BY <1>1, <2>1
  <2> QED BY <1>3, <1>5, <2>2
<1>6. \A k \in 0..Len(r) : k \in G
  <2> HIDE DEF G
  <2>1. Len(r) \in Nat
    OBVIOUS
  <2> QED BY <2>1, <1>4, <1>5, Induction!UpTo
<1> QED BY <1>6 DEF D, E

-----------------------------------------------------------------------------
(* Texts after whose end the terminal is as it was.                        *)

LEMMA InitTerm ==
    /\ term_init \in Term
    /\ term_init.state = "READY" /\ term_init.cparams = <<>>
    /\ term_init.fgcolor = DEFAULT_FGCOLOR /\ term_init.bgcolor = DEFAULT_BGCOLOR
<1>1. [cell \in Cell |-> Blank(DEFAULT_BGCOLOR)] \in [Cell -> Char \X Nat \X Nat]
  BY BlankType DEF DEFAULT_BGCOLOR
<1>2. <<>> \in Seq(Nat) /\ DEFAULT_FGCOLOR \in Nat /\ DEFAULT_BGCOLOR \in Nat
  BY DEF DEFAULT_FGCOLOR, DEFAULT_BGCOLOR
<1>3. term_init \in Term
  BY <1>1, <1>2, SizeType DEF term_init, Term
<1> QED BY <1>3 DEF term_init

\* The end of a text.
LEMMA LastOfIs ==
    ASSUME NEW S, NEW s \in Seq(S), NEW n \in 0..Len(s)
    PROVE  /\ LastOf(s, n) \in Seq(S)
           /\ Len(LastOf(s, n)) = n
           /\ \A k \in 1..n : LastOf(s, n)[k] = s[Len(s)-n+k]
<1> DEFINE a == Len(s)-n+1
           b == Len(s)
<1>1. a \in Int /\ b \in Int /\ \A k \in a..b : k \in 1..Len(s)
  OBVIOUS
<1>2. /\ SubSeq(s, a, b) \in Seq(S)
      /\ Len(SubSeq(s, a, b)) = n
      /\ \A k \in 1..n : SubSeq(s, a, b)[k] = s[a+k-1]
  BY <1>1, SubSeqProperties
<1> QED BY <1>2 DEF LastOf

LEMMA LastTwo ==
    ASSUME NEW S, NEW s \in Seq(S), Len(s) > 1
    PROVE  LastOf(s, 2) = <<s[Len(s)-1], s[Len(s)]>>
<1>1. 2 \in 0..Len(s) /\ 1 \in 1..2 /\ 2 \in 1..2
      /\ Len(s)-2+1 = Len(s)-1 /\ Len(s)-2+2 = Len(s)
  OBVIOUS
<1>2. /\ LastOf(s, 2) \in Seq(S) /\ Len(LastOf(s, 2)) = 2
      /\ \A k \in 1..2 : LastOf(s, 2)[k] = s[Len(s)-2+k]
  <2>1. \A n \in 0..Len(s) :
           /\ LastOf(s, n) \in Seq(S) /\ Len(LastOf(s, n)) = n
           /\ \A k \in 1..n : LastOf(s, n)[k] = s[Len(s)-n+k]
    BY LastOfIs
  <2> QED BY ONLY <1>1, <2>1
<1>3. LastOf(s, 2)[1] = s[Len(s)-1] /\ LastOf(s, 2)[2] = s[Len(s)]
  BY <1>1, <1>2
<1> QED BY <1>2, <1>3

\* A whole text is the end of itself.
LEMMA LastOfAll ==
    ASSUME NEW S, NEW s \in Seq(S)
    PROVE  LastOf(s, Len(s)) = s
<1>1. LastOf(s, Len(s)) \in Seq(S) /\ Len(LastOf(s, Len(s))) = Len(s)
      /\ \A k \in 1..Len(s) : LastOf(s, Len(s))[k] = s[k]
  BY LastOfIs
<1> QED BY <1>1

LEMMA ClosedJoined ==
    ASSUME NEW a \in Seq(Char), NEW b \in Seq(Char), Closed(a), Closed(b)
    PROVE  Closed(a \o b)
<1> DEFINE s == a \o b
<1>1. /\ s \in Seq(Char) /\ Len(s) = Len(a) + Len(b)
      /\ \A k \in 1..Len(a) : s[k] = a[k]
      /\ \A k \in 1..Len(b) : s[Len(a)+k] = b[k]
  OBVIOUS
<1> HIDE DEF s
<1>2. ASSUME NEW n \in 0..Len(s)
      PROVE  Mode(Drawing(term_init, LastOf(s, n))[n]) = Mode(term_init)
  <2> DEFINE r == LastOf(s, n)
             D == Drawing(term_init, r)
  <2>1. r \in Seq(Char) /\ Len(r) = n /\ \A k \in 1..n : r[k] = s[Len(s)-n+k]
    BY <1>1, LastOfIs
  <2>2. CASE n <= Len(b)
    <3> DEFINE e == LastOf(b, n)
    <3>1. e \in Seq(Char) /\ Len(e) = n /\ \A k \in 1..n : e[k] = b[Len(b)-n+k]
      BY <1>1, <2>2, LastOfIs
    <3>2. \A k \in 1..n : Len(b)-n+k \in 1..Len(b) /\ Len(s)-n+k = Len(a) + (Len(b)-n+k)
      BY <1>1, <2>2
    <3>3. \A k \in 1..n : r[k] = e[k]
      BY <1>1, <2>1, <3>1, <3>2
    <3> HIDE DEF r, e
    <3>4. r = e
      BY <2>1, <3>1, <3>3
    <3> QED BY <2>2, <3>4 DEF Closed, r, e
  <2>3. CASE n > Len(b)
    <3> DEFINE m == n - Len(b)
               e == LastOf(a, m)
    <3>1. m \in Nat /\ m \in 0..Len(a) /\ m <= n
      BY <1>1, <2>3
    <3>2. e \in Seq(Char) /\ Len(e) = m /\ \A k \in 1..m : e[k] = a[Len(a)-m+k]
      BY <3>1, LastOfIs
    <3>3. \A k \in 1..m : r[k] = e[k]
      <4>1. \A k \in 1..m : Len(a)-m+k \in 1..Len(a) /\ Len(s)-n+k = Len(a)-m+k /\ k \in 1..n
        BY <1>1, <3>1
      <4> QED BY <1>1, <2>1, <3>2, <4>1
    <3>4. \A k \in 1..Len(b) : r[m+k] = b[k]
      <4>1. \A k \in 1..Len(b) : m+k \in 1..n /\ Len(s)-n+(m+k) = Len(a)+k
        BY <1>1, <3>1
      <4> QED BY <1>1, <2>1, <4>1
    <3>5. Len(b) = Len(r) - m /\ Len(b) \in Nat /\ m \in 0..Len(r) /\ m + Len(b) = n
      BY <2>1, <3>1
    <3> HIDE DEF m, e, r
    <3>6. Mode(D[m]) = Mode(term_init)
      <4>1. Mode(D[m]) = Mode(Drawing(term_init, e)[m])
        <5>1. m <= Len(r) /\ m <= Len(e) /\ m \in 0..m
          BY <2>1, <3>1, <3>2
        <5>2. \A k \in 0..m : Mode(Drawing(term_init, r)[k]) = Mode(Drawing(term_init, e)[k])
          BY <2>1, <3>1, <3>2, <3>3, <5>1, InitTerm, DrawingMode
        <5> QED BY <5>1, <5>2
      <4>2. Mode(Drawing(term_init, e)[m]) = Mode(term_init)
        BY <3>1 DEF Closed, e
      <4> QED BY <4>1, <4>2
    <3>7. D[m] \in Term
      BY <2>1, <3>5, InitTerm, DrawingIs
    <3>8. D[n] = Drawing(D[m], b)[Len(b)]
      <4>1. Drawing(D[m], b)[Len(b)] = D[m+Len(b)]
        <5>1. \A k \in 0..Len(b) : Drawing(Drawing(term_init, r)[m], b)[k] =
                                       Drawing(term_init, r)[m+k]
          <6>1. r \in Seq(Char) /\ term_init \in Term
            BY <2>1, InitTerm
          <6> QED BY ONLY <3>4, <3>5, <6>1, b \in Seq(Char), DrawingOn
        <5> QED BY <3>5, <5>1
      <4> QED BY <3>5, <4>1
    <3>9. Mode(Drawing(D[m], b)[Len(b)]) = Mode(Drawing(term_init, b)[Len(b)])
      BY <3>5, <3>6, <3>7, InitTerm, DrawingMode
    <3>10. Mode(Drawing(term_init, b)[Len(b)]) = Mode(term_init)
      <4>1. LastOf(b, Len(b)) = b
        BY LastOfAll
      <4> QED BY <3>5, <4>1 DEF Closed
    <3> QED BY <3>8, <3>9, <3>10 DEF r
  <2> QED BY <2>2, <2>3, <1>1
<1>3. ASSUME Len(s) > 1, LastOf(s, 2) = <<ESC, "c">> PROVE FALSE
  <2>1. s[Len(s)-1] = ESC /\ s[Len(s)] = "c"
    <3>1. <<s[Len(s)-1], s[Len(s)]>> = <<ESC, "c">>
      BY <1>1, <1>3, LastTwo
    <3> QED BY ONLY <3>1
  <2>2. CASE Len(b) > 1
    <3>1. b[Len(b)-1] = ESC /\ b[Len(b)] = "c"
      <4>1. Len(s)-1 = Len(a)+(Len(b)-1) /\ Len(b)-1 \in 1..Len(b) /\ Len(b) \in 1..Len(b)
        BY <1>1, <2>2
      <4> QED BY <1>1, <2>1, <4>1
    <3>2. LastOf(b, 2) = <<ESC, "c">>
      <4>1. LastOf(b, 2) = <<b[Len(b)-1], b[Len(b)]>>
        BY <2>2, LastTwo
      <4> QED BY <3>1, <4>1
    <3> QED BY <2>2, <3>2 DEF Closed
  <2>3. CASE Len(b) = 1
    <3>1. Len(a) \in 1..Len(a) /\ Len(s)-1 = Len(a) /\ 1 \in 0..Len(a)
      BY <1>1, <1>3, <2>3
    <3>2. a[Len(a)] = ESC
      BY <1>1, <2>1, <3>1
    <3> DEFINE e == LastOf(a, 1)
    <3>3. e \in Seq(Char) /\ Len(e) = 1 /\ e[1] = ESC
      <4>1. Len(a)-1+1 = Len(a) /\ 1 \in 1..1
        BY <3>1
      <4>2. e \in Seq(Char) /\ Len(e) = 1 /\ \A k \in 1..1 : e[k] = a[Len(a)-1+k]
        BY <3>1, LastOfIs
      <4> QED BY <3>2, <4>1, <4>2
    <3> HIDE DEF e
    <3>4. Drawing(term_init, e)[1] = term_putchar(term_init, ESC)
      <4>1. /\ Drawing(term_init, e)[0] = term_init
            /\ \A k \in 1..Len(e) : Drawing(term_init, e)[k] =
                                       term_putchar(Drawing(term_init, e)[k-1], e[k])
        <5>1. e \in Seq(Char) /\ term_init \in Term
          BY <3>3, InitTerm
        <5> QED BY ONLY <5>1, DrawingIs
      <4>2. 1 \in 1..Len(e) /\ 1-1 = 0
        BY <3>3
      <4>3. Drawing(term_init, e)[1] = term_putchar(Drawing(term_init, e)[1-1], e[1])
        BY <4>1, <4>2
      <4> QED BY <3>3, <4>1, <4>2, <4>3
    <3>5. term_putchar(term_init, ESC).state = "CMD_WAIT"
      <4> DEFINE u == [term_init EXCEPT !.state = "CMD_WAIT"]
      <4>1. parse_cmd_byte(term_init, ESC) = Taken(u)
        BY InitTerm, ParseIs DEF ParseCases
      <4>2. u.state = "CMD_WAIT"
        BY InitTerm DEF Term
      <4> HIDE DEF u
      <4>3. term_putchar(term_init, ESC) = u
        BY <4>1 DEF term_putchar, Taken
      <4> QED BY <4>2, <4>3
    <3>6. Mode(Drawing(term_init, e)[1]) = Mode(term_init)
      BY <3>1 DEF Closed, e
    <3> QED BY <3>4, <3>5, <3>6, InitTerm DEF Mode
  <2>4. CASE Len(b) = 0
    <3>1. b = <<>>
      BY <2>4
    <3>2. s = a
      BY <3>1 DEF s
    <3> QED BY <1>3, <3>2 DEF Closed
  <2>5. Len(b) > 1 \/ Len(b) = 1 \/ Len(b) = 0
    <3>1. \A n \in Nat : n > 1 \/ n = 1 \/ n = 0
      BY ONLY TRUE
    <3>2. Len(b) \in Nat
      OBVIOUS
    <3> QED BY ONLY <3>1, <3>2
  <2> QED BY <2>2, <2>3, <2>4, <2>5
<1> QED BY <1>2, <1>3 DEF Closed, s

-----------------------------------------------------------------------------
(* What is logged is closed, but for the text that is being logged, and    *)
(* that of a panic: while it is, nobody else can show the log.             *)

\* The first k texts of a panic, one after the other.
IsFlat(flat) ==
    /\ flat \in [0..Len(PanicTexts) -> Seq(Char)]
    /\ flat[0] = <<>>
    /\ \A k \in 1..Len(PanicTexts) : flat[k] = flat[k-1] \o PanicTexts[k]
    /\ flat[Len(PanicTexts)] = PanicText
Flat == CHOOSE flat : IsFlat(flat)

LEMMA FlatIs == IsFlat(Flat)
<1> DEFINE n == Len(PanicTexts)
           R(f) == [i \in 1..n |-> IF i = 1 THEN PanicTexts[i] ELSE f[i-1] \o PanicTexts[i]]
           flatten == CHOOSE f : f = R(f)
           F == [k \in 1..n |-> [s \in Seq(Char) |-> s \o PanicTexts[k]]]
<1>1. n \in Nat \ {0} /\ \A k \in 1..n : PanicTexts[k] \in Seq(Char)
  BY ConsoleAssumption DEF Char
<1>2. PanicText = flatten[n]
  BY <1>1 DEF PanicText, FlattenSeq
<1> HIDE DEF n
<1>3. \E f : f = R(f)
  <2>1. PICK flat \in [0..n -> Seq(Char)] :
           flat[0] = <<>> /\ \A k \in 1..n : flat[k] = F[k][flat[k-1]]
    <3>1. F \in [1..n -> [Seq(Char) -> Seq(Char)]]
      BY <1>1
    <3>2. <<>> \in Seq(Char) /\ n \in Nat
      BY <1>1
    <3> HIDE DEF F
    <3>3. Induction!Iterates(n, Seq(Char), <<>>, F)
      BY <3>1, <3>2, Induction!Iterated
    <3> QED BY <3>3 DEF Induction!Iterates
  <2>2. \A k \in 1..n : flat[k] = flat[k-1] \o PanicTexts[k]
    <3>1. \A k \in 1..n : k-1 \in 0..n
      BY <1>1
    <3> QED BY <2>1, <3>1
  <2> DEFINE f == [i \in 1..n |-> flat[i]]
  <2>3. \A i \in 1..n : f[i] = IF i = 1 THEN PanicTexts[i] ELSE f[i-1] \o PanicTexts[i]
    <3>1. ASSUME NEW i \in 1..n
          PROVE  f[i] = IF i = 1 THEN PanicTexts[i] ELSE f[i-1] \o PanicTexts[i]
      <4> HIDE DEF f
      <4>1. CASE i = 1
        <5>0. i-1 = 0
          BY <4>1
        <5>1. flat[i] = flat[0] \o PanicTexts[i]
          BY ONLY <2>2, <5>0, i \in 1..n
        <5>2. PanicTexts[i] \in Seq(Char)
          BY <1>1
        <5>3. <<>> \o PanicTexts[i] = PanicTexts[i]
          BY ONLY <5>2
        <5>4. flat[0] = <<>> /\ f[i] = flat[i]
          BY <2>1 DEF f
        <5>5. f[i] = PanicTexts[i]
          BY ONLY <5>1, <5>3, <5>4
        <5> QED BY <4>1, <5>5
      <4>2. CASE i # 1
        <5>1. i-1 \in 1..n
          BY <1>1, <4>2
        <5>2. f[i-1] = flat[i-1] /\ f[i] = flat[i]
          BY <5>1 DEF f
        <5> QED BY <2>2, <4>2, <5>2
      <4> QED BY <4>1, <4>2
    <3> QED BY <3>1
  <2>4. f = R(f)
    <3>1. f = [i \in 1..n |-> f[i]]
      OBVIOUS
    <3> HIDE DEF f
    <3> QED BY <2>3, <3>1
  <2> QED BY <2>4
<1>4. flatten = R(flatten)
  BY <1>3
<1> HIDE DEF flatten
<1> DEFINE flat == [k \in 0..n |-> IF k = 0 THEN <<>> ELSE flatten[k]]
<1>5. \A i \in 1..n : flatten[i] = IF i = 1 THEN PanicTexts[i] ELSE flatten[i-1] \o PanicTexts[i]
  BY <1>4
<1>6. \A k \in 1..n : k \in 0..n /\ k-1 \in 0..n /\ k # 0
  BY <1>1
<1>7. flat[0] = <<>> /\ flat[n] = PanicText
  BY <1>1, <1>2
<1>8. ASSUME NEW k \in 1..n PROVE flat[k] = flat[k-1] \o PanicTexts[k]
  <2>1. flat[k] = flatten[k]
    BY <1>6
  <2>2. CASE k = 1
    <3>1. flat[k-1] = <<>> /\ flatten[k] = PanicTexts[k]
      BY <1>5, <1>7, <2>2
    <3>2. PanicTexts[k] \in Seq(Char)
      BY <1>1
    <3>3. <<>> \o PanicTexts[k] = PanicTexts[k]
      BY <3>2
    <3> HIDE DEF flat
    <3> QED BY <2>1, <3>1, <3>3
  <2>3. CASE k # 1
    <3>1. flat[k-1] = flatten[k-1]
      BY <1>6, <2>3
    <3> HIDE DEF flat
    <3> QED BY <1>5, <2>1, <2>3, <3>1
  <2> QED BY <2>2, <2>3
<1>9. flat = [k \in 0..n |-> flat[k]]
  OBVIOUS
<1> HIDE DEF flat
<1>10. \A k \in 0..n : flat[k] \in Seq(Char)
  <2> DEFINE G == {k \in 0..n : flat[k] \in Seq(Char)}
  <2>1. 0 \in G
    <3>1. 0 \in 0..n /\ <<>> \in Seq(Char)
      BY <1>1
    <3> QED BY <1>7, <3>1
  <2>2. ASSUME NEW k \in 1..n, k-1 \in G PROVE k \in G
    <3>1. flat[k-1] \in Seq(Char) /\ PanicTexts[k] \in Seq(Char) /\ k \in 0..n
      BY <1>1, <1>6, <2>2
    <3>2. flat[k-1] \o PanicTexts[k] \in Seq(Char)
      BY ONLY <3>1
    <3>3. flat[k] \in Seq(Char)
      BY <1>8, <3>2
    <3> QED BY <3>1, <3>3
  <2> HIDE DEF G
  <2>3. \A k \in 0..n : k \in G
    <3>1. n \in Nat
      BY <1>1
    <3> QED BY <2>1, <2>2, <3>1, Induction!UpTo
  <2> QED BY <2>3 DEF G
<1>11. IsFlat(flat)
  BY <1>7, <1>8, <1>9, <1>10 DEF IsFlat, n
<1> QED BY <1>11 DEF Flat

NobodyAt(step) == \A c \in CPU : cpu[c].at # step

\* The log, when nobody is writing a text.
LogClosed == NobodyAt("put") => Closed(logged)

\* A closed log and the first k texts of a panic.
PanicLogged(s, k) == \E base \in Seq(Char) : Closed(base) /\ s = base \o Flat[k]

\* All but c have stopped.
Quieted(c) == \A d \in CPU \ {c} : Halted(d) \/ At(d, "panic", "enter")

\* Cpu c, which panics, has k texts behind it.
Behind(c, k) == \/ k = 0 /\ LogClosed
                \/ Quieted(c) /\ PanicLogged(logged, k)

\* Cpu c is about the texts of its panic.
Mid(c) == cpu[c].job = "panic" /\ cpu[c].at \in {"next", "wait", "put"}

\* How many of them it has fetched.
Fetched(c) == Len(PanicTexts) - Len(cpu[c].left)

TextOf(c) ==
    /\ cpu[c].job = "task" /\ cpu[c].at = "wait" => Closed(cpu[c].text)
    /\ cpu[c].job = "task" /\ cpu[c].at = "put" => Closed(logged \o cpu[c].text)
    /\ cpu[c].job = "panic" =>
          /\ Fetched(c) \in 0..Len(PanicTexts)
          /\ \A j \in 1..Len(cpu[c].left) : cpu[c].left[j] = PanicTexts[Fetched(c)+j]
          /\ cpu[c].at \in {"enter", "set", "pit"} => Fetched(c) = 0
          /\ cpu[c].at = "next" => Behind(c, Fetched(c))
          /\ cpu[c].at = "wait" => /\ Fetched(c) > 0
                                   /\ cpu[c].text = PanicTexts[Fetched(c)]
                                   /\ Behind(c, Fetched(c)-1)
          /\ cpu[c].at = "put" => PanicLogged(logged \o cpu[c].text, Fetched(c))

TextInv ==
    /\ \A c \in CPU : TextOf(c)
    /\ (\A c \in CPU : ~Mid(c)) => LogClosed

LEMMA ClosedEmpty == Closed(<<>>)
<1>1. <<>> \in Seq(Char) /\ Len(<<>>) = 0
  OBVIOUS
<1>2. LastOf(<<>>, 0) \in Seq(Char)
  <2>1. 0 \in 0..Len(<<>>)
    BY <1>1
  <2> QED BY ONLY <1>1, <2>1, LastOfIs
<1>3. Drawing(term_init, LastOf(<<>>, 0))[0] = term_init
  BY <1>2, InitTerm, DrawingIs
<1> QED BY <1>1, <1>3 DEF Closed

LEMMA InitTexts == Init => TextInv
<1> SUFFICES ASSUME Init PROVE TextInv
  OBVIOUS
<1>1. \A c \in CPU : cpu[c].at = "idle" /\ cpu[c].job = "task"
  BY DEF Init
<1>2. logged = <<>>
  BY DEF Init
<1> QED BY <1>1, <1>2, ClosedEmpty DEF TextInv, TextOf, LogClosed

\* A cpu that makes a step is not stopped.
Goes(c) == ~Halted(c) /\ (At(c, "panic", "enter") => panic_lock = NULL)

LEMMA StepGoes ==
    ASSUME TypeOK, DrawInv, NEW c \in CPU,
           klog(c) \/ klog_show(c) \/ TimerInterrupt(c) \/ kernel_panic(c)
    PROVE  Goes(c)
<1> USE DEF Goes, Halted, At, Masked
<1>1. CASE klog(c)
  BY <1>1 DEF klog, Call, LockLog, putch, Logged
<1>2. CASE klog_show(c)
  BY <1>2 DEF klog_show, TermClear, Scan, PrintNext, Printed, fb_swap_buffers
<1>3. CASE TimerInterrupt(c)
  <2>1. CASE Preempt(c)
    <3>1. cpu[c].job = "display"
      BY <2>1 DEF Preempt
    <3>2. cpu[c].at # "halted"
      BY <2>1 DEF Preempt, DrawInv, TimerHalts
    <3> QED BY <3>1, <3>2
  <2>2. CASE Resume(c)
    BY <2>2 DEF Resume
  <2>3. CASE halt(c)
    BY <2>3 DEF halt
  <2> QED BY <1>3, <2>1, <2>2, <2>3 DEF TimerInterrupt
<1>4. CASE kernel_panic(c)
  BY <1>4 DEF kernel_panic, EnterPanic, LockPanic, apic_timer_set_handler, pit_wait, NextText
<1> QED BY <1>1, <1>2, <1>3, <1>4

LEMMA OnePanics ==
    ASSUME DrawInv, NEW c \in CPU, NEW d \in CPU, Mid(c),
           cpu[d].job = "panic", cpu[d].at # "enter"
    PROVE  c = d
BY DEF DrawInv, PanicOwner, Mid

\* Whoever goes on, but for the texts of a panic, finds a closed log.
LEMMA GoesClosed ==
    ASSUME DrawInv, TextInv, NEW c \in CPU, Goes(c), ~Mid(c)
    PROVE  LogClosed
<1>1. CASE \A d \in CPU : ~Mid(d)
  BY <1>1 DEF TextInv
<1>2. CASE \E d \in CPU : Mid(d)
  <2>1. PICK d \in CPU : Mid(d)
    BY <1>2
  <2>2. d # c
    BY <2>1
  <2>3. ~Quieted(d)
    <3>1. panic_lock = d /\ d # NULL
      BY <2>1, ConsoleAssumption DEF Mid, DrawInv, PanicOwner
    <3> QED BY <2>2, <3>1 DEF Quieted, Goes
  <2>4. CASE cpu[d].at = "put"
    BY <2>4 DEF LogClosed, NobodyAt
  <2>5. CASE cpu[d].at = "next"
    BY <2>1, <2>3, <2>5 DEF TextInv, TextOf, Mid, Behind
  <2>6. CASE cpu[d].at = "wait"
    BY <2>1, <2>3, <2>6 DEF TextInv, TextOf, Mid, Behind
  <2> QED BY <2>1, <2>4, <2>5, <2>6 DEF Mid
<1> QED BY <1>1, <1>2

\* What a step of c leaves of the texts of another cpu.
LEMMA TextOthers ==
    ASSUME TypeOK, DrawInv, TextInv, NEW c \in CPU, Goes(c), Others(c),
           logged' = logged \/ cpu[c].at = "put", (LogClosed => LogClosed') \/ Mid(c),
           NEW d \in CPU, d # c
    PROVE  TextOf(d)'
<1>1. cpu'[d] = cpu[d] /\ TextOf(d) /\ Fetched(d)' = Fetched(d)
  BY DEF Others, TextInv, Fetched
<1>2. cpu[d].at = "put" => logged' = logged
  BY DEF DrawInv, LockOwner
<1>3. ASSUME Mid(d), cpu[d].at # "put", NEW k, Behind(d, k) PROVE Behind(d, k)'
  <2>1. ~Quieted(d)
    <3>1. panic_lock = d /\ d # NULL
      BY <1>3, ConsoleAssumption DEF Mid, DrawInv, PanicOwner
    <3> QED BY <3>1 DEF Quieted, Goes
  <2>2. ~Mid(c)
    BY <1>3, OnePanics DEF Mid
  <2> QED BY <1>3, <2>1, <2>2 DEF Behind
<1>4. CASE cpu[d].job # "panic"
  BY <1>1, <1>2, <1>4 DEF TextOf
<1>5. CASE cpu[d].job = "panic" /\ cpu[d].at \notin {"next", "wait", "put"}
  BY <1>1, <1>5 DEF TextOf
<1>6. CASE cpu[d].job = "panic" /\ cpu[d].at = "put"
  BY <1>1, <1>2, <1>6 DEF TextOf, PanicLogged
<1>7. CASE cpu[d].job = "panic" /\ cpu[d].at = "next"
  <2>1. Behind(d, Fetched(d))
    BY <1>1, <1>7 DEF TextOf
  <2>2. Behind(d, Fetched(d))'
    BY <1>1, <1>3, <1>7, <2>1 DEF Mid
  <2> QED BY <1>1, <1>7, <2>2 DEF TextOf
<1>8. CASE cpu[d].job = "panic" /\ cpu[d].at = "wait"
  <2>1. Behind(d, Fetched(d)-1)
    BY <1>1, <1>8 DEF TextOf
  <2>2. Behind(d, Fetched(d)-1)'
    BY <1>1, <1>3, <1>8, <2>1 DEF Mid
  <2> QED BY <1>1, <1>8, <2>2 DEF TextOf
<1> QED BY <1>4, <1>5, <1>6, <1>7, <1>8

LEMMA TextKept ==
    ASSUME TypeOK, DrawInv, TextInv, NEW c \in CPU, Goes(c), Others(c),
           logged' = logged \/ cpu[c].at = "put", (LogClosed => LogClosed') \/ Mid(c),
           TextOf(c)', Mid(c) => Mid(c)' \/ LogClosed'
    PROVE  TextInv'
<1>1. \A d \in CPU : TextOf(d)'
  BY TextOthers
<1>2. ASSUME \A d \in CPU : ~Mid(d)' PROVE LogClosed'
  <2>1. ~Mid(c)'
    BY <1>2
  <2>2. CASE Mid(c)
    BY <2>1, <2>2
  <2>3. CASE ~Mid(c)
    BY <2>3, GoesClosed
  <2> QED BY <2>2, <2>3
<1> QED BY <1>1, <1>2 DEF TextInv

\* A step of c that logs nothing.
LEMMA TextQuiet ==
    ASSUME TypeOK, DrawInv, TextInv, NEW c \in CPU, Goes(c), Others(c), logged' = logged,
           cpu[c].at # "put", cpu'[c].at # "put", TextOf(c)', Mid(c) => Mid(c)' \/ LogClosed'
    PROVE  TextInv'
<1>1. NobodyAt("put")' => NobodyAt("put")
  BY DEF NobodyAt, Others
<1>2. LogClosed => LogClosed'
  BY <1>1 DEF LogClosed
<1> QED BY <1>2, TextKept

LEMMA klogTexts ==
    ASSUME TextInv, TypeOK, DrawInv, NEW c \in CPU, klog(c)
    PROVE  TextInv'
<1>t. cpu \in [CPU -> CpuType] /\ cpu[c].job \in {"task", "display", "panic"}
  BY DEF TypeOK, CpuType, Job
<1>g. Goes(c)
  BY StepGoes
<1>1. CASE Call(c)
  <2>1. PICK text \in Texts : cpu' = [cpu EXCEPT ![c].at = "wait", ![c].text = text]
    BY <1>1 DEF Call
  <2>2. /\ Others(c) /\ cpu'[c].at = "wait" /\ cpu'[c].text = text /\ cpu'[c].job = cpu[c].job
    BY <1>t, <2>1 DEF CpuType, Others
  <2>3. Closed(text)
    BY TextsAssumption
  <2>4. logged' = logged /\ cpu[c].at = "idle" /\ cpu[c].job = "task"
    BY <1>1 DEF Call, log, At
  <2>5. TextOf(c)'
    BY <2>2, <2>3, <2>4 DEF TextOf
  <2> QED BY <1>g, <2>2, <2>4, <2>5, TextQuiet DEF Mid
<1>2. CASE LockLog(c)
  <2>1. Moved(c, cpu[c].job, IF cpu[c].job = "display" THEN "scan" ELSE "put")
        /\ cpu'[c].left = cpu[c].left
    BY <1>2, GoMoves DEF LockLog, lock_wait
  <2>2. logged' = logged /\ cpu[c].at = "wait" /\ log_lock = NULL
        /\ cpu'[c].text = cpu[c].text
    BY <1>2, <1>t DEF LockLog, lock_wait, log, Go, CpuType
  <2>3. CASE cpu[c].job = "display"
    <3>1. TextOf(c)' /\ ~Mid(c)
      BY <2>1, <2>3 DEF TextOf, Moved, Mid
    <3> QED BY <1>g, <2>1, <2>2, <2>3, <3>1, TextQuiet DEF Moved
  <2>4. CASE cpu[c].job # "display"
    <3>1. NobodyAt("put")
      BY <2>2, ConsoleAssumption DEF DrawInv, LockOwner, NobodyAt
    <3>2. logged \in Seq(Char) /\ cpu[c].text \in Seq(Char)
      BY <1>t DEF TypeOK, CpuType, Char
    <3>3. Others(c) /\ cpu'[c].at = "put" /\ cpu'[c].job = cpu[c].job
      BY <2>1, <2>4 DEF Moved
    <3>4. LogClosed'
      BY <3>3 DEF LogClosed, NobodyAt
    <3>5. CASE cpu[c].job = "task"
      <4>1. LogClosed
        BY <1>g, <3>5, GoesClosed DEF Mid
      <4>2. Closed(logged) /\ Closed(cpu[c].text)
        BY <2>2, <3>1, <3>5, <4>1 DEF TextInv, TextOf, LogClosed
      <4>3. Closed(logged' \o cpu'[c].text)
        BY <2>2, <3>2, <4>2, ClosedJoined
      <4>4. TextOf(c)'
        BY <3>3, <3>5, <4>3 DEF TextOf
      <4> QED BY <1>g, <2>2, <3>3, <3>4, <4>4, TextKept
    <3>6. CASE cpu[c].job = "panic"
      <4>1. /\ Fetched(c) \in 0..Len(PanicTexts) /\ Fetched(c) > 0
            /\ \A j \in 1..Len(cpu[c].left) : cpu[c].left[j] = PanicTexts[Fetched(c)+j]
            /\ cpu[c].text = PanicTexts[Fetched(c)]
            /\ Behind(c, Fetched(c)-1)
        BY <2>2, <3>6 DEF TextInv, TextOf
      <4> DEFINE k == Fetched(c)
      <4>2. k \in 1..Len(PanicTexts) /\ k-1 \in 0..Len(PanicTexts)
        BY <4>1
      <4>3. Flat[k-1] \in Seq(Char) /\ Flat[k] = Flat[k-1] \o cpu[c].text /\ Flat[0] = <<>>
        BY <4>1, <4>2, FlatIs DEF IsFlat
      <4>4. PICK base \in Seq(Char) : Closed(base) /\ logged = base \o Flat[k-1]
        <5>1. CASE k-1 = 0 /\ LogClosed
          <6>1. Closed(logged) /\ logged = logged \o Flat[k-1]
            BY <3>1, <3>2, <4>3, <5>1 DEF LogClosed
          <6> QED BY <3>2, <6>1
        <5>2. CASE PanicLogged(logged, k-1)
          BY <5>2 DEF PanicLogged
        <5> QED BY <4>1, <5>1, <5>2 DEF Behind
      <4>5. Fetched(c)' = k
        BY <2>1 DEF Fetched
      <4> HIDE DEF k
      <4>6. (base \o Flat[k-1]) \o cpu[c].text = base \o (Flat[k-1] \o cpu[c].text)
        <5>1. \A u, v, w \in Seq(Char) : (u \o v) \o w = u \o (v \o w)
          BY ONLY TRUE
        <5> QED BY <3>2, <4>3, <5>1
      <4>7. PanicLogged(logged' \o cpu'[c].text, k)
        BY <2>2, <4>3, <4>4, <4>6 DEF PanicLogged
      <4>8. TextOf(c)'
        BY <2>1, <3>3, <3>6, <4>1, <4>5, <4>7 DEF TextOf, k
      <4> QED BY <1>g, <2>2, <3>3, <3>4, <4>8, TextKept
    <3> QED BY <1>t, <2>4, <3>5, <3>6
  <2> QED BY <2>3, <2>4
<1>3. CASE putch(c)
  <2>1. /\ cpu[c].at = "put" /\ cpu[c].text # <<>>
        /\ logged' = Append(logged, Head(cpu[c].text))
        /\ cpu' = [cpu EXCEPT ![c].text = Tail(cpu[c].text)]
    BY <1>3 DEF putch, TypeOK
  <2>2. /\ Others(c) /\ cpu'[c].job = cpu[c].job
        /\ cpu'[c].at = "put" /\ cpu'[c].text = Tail(cpu[c].text)
        /\ cpu'[c].left = cpu[c].left
    BY <1>t, <2>1 DEF CpuType, Others
  <2>3. logged' \o cpu'[c].text = logged \o cpu[c].text
    <3> DEFINE a == logged
               b == cpu[c].text
    <3>1. a \in Seq(Char) /\ b \in Seq(Char) /\ b # <<>>
      BY <1>t, <2>1 DEF TypeOK, CpuType, Char
    <3> HIDE DEF a, b
    <3>2. Append(a, Head(b)) \o Tail(b) = a \o b
      BY <3>1
    <3> QED BY <2>1, <2>2, <3>2 DEF a, b
  <2>4. LogClosed'
    BY <2>2 DEF LogClosed, NobodyAt
  <2>5. TextOf(c) /\ Fetched(c)' = Fetched(c)
    BY <2>2 DEF TextInv, Fetched
  <2>6. TextOf(c)'
    BY <2>1, <2>2, <2>3, <2>5 DEF TextOf
  <2> QED BY <1>g, <2>1, <2>2, <2>4, <2>6, TextKept
<1>4. CASE Logged(c)
  <2>1. PICK k \in {"halted", "next", "idle"} :
          /\ Moved(c, cpu[c].job, k) /\ cpu'[c].left = cpu[c].left
          /\ cpu[c].job = "panic" => k = "next"
          /\ cpu[c].job # "panic" => k # "next"
    BY <1>4, GoMoves DEF Logged, Released
  <2>2. logged' = logged /\ cpu[c].at = "put" /\ cpu[c].text = <<>>
    BY <1>4 DEF Logged, log
  <2>3. Others(c) /\ cpu'[c].at = k /\ cpu'[c].job = cpu[c].job
    BY <2>1 DEF Moved
  <2>4. logged \o <<>> = logged
    <3>1. logged \in Seq(Char)
      BY DEF TypeOK
    <3> QED BY <3>1
  <2>5. cpu[c].job # "display"
    BY <2>2, PlaceIs DEF DrawInv, Placed
  <2>6. CASE cpu[c].job = "task"
    <3>1. Closed(logged')
      BY <2>2, <2>4, <2>6 DEF TextInv, TextOf
    <3>2. LogClosed'
      BY <3>1 DEF LogClosed
    <3>3. TextOf(c)'
      BY <2>1, <2>3, <2>6 DEF TextOf
    <3> QED BY <1>g, <2>2, <2>3, <3>2, <3>3, TextKept
  <2>7. CASE cpu[c].job = "panic"
    <3>1. PanicLogged(logged, Fetched(c)) /\ TextOf(c) /\ Fetched(c)' = Fetched(c)
      BY <2>1, <2>2, <2>4, <2>7 DEF TextInv, TextOf, Fetched
    <3>2. Quieted(c)
      <4>1. Alone(c)
        BY <2>2, <2>7 DEF Alone
      <4> QED BY <2>2, <4>1 DEF Quieted, DrawInv, Stopped
    <3>3. Quieted(c)'
      BY <2>3, <3>2 DEF Quieted, Others, Halted, At
    <3>4. cpu'[c].at = "next" /\ Mid(c) /\ Mid(c)'
      BY <2>1, <2>2, <2>3, <2>7 DEF Mid
    <3>5. Behind(c, Fetched(c))'
      BY <2>2, <3>1, <3>3 DEF Behind
    <3>6. TextOf(c)'
      BY <2>1, <2>3, <2>7, <3>1, <3>4, <3>5 DEF TextOf
    <3> QED BY <1>g, <2>2, <2>3, <3>4, <3>6, TextKept
  <2> QED BY <1>t, <2>5, <2>6, <2>7
<1> QED BY <1>1, <1>2, <1>3, <1>4 DEF klog

LEMMA klog_showTexts ==
    ASSUME TextInv, TypeOK, DrawInv, NEW c \in CPU, klog_show(c)
    PROVE  TextInv'
<1>t. cpu \in [CPU -> CpuType]
  BY DEF TypeOK
<1>g. Goes(c)
  BY StepGoes
<1>1. logged' = logged
  BY DEF klog_show, TermClear, Scan, PrintNext, Printed, fb_swap_buffers, log
<1>2. /\ Others(c) /\ cpu'[c].left = cpu[c].left /\ cpu'[c].job = cpu[c].job
      /\ cpu[c].at \in {"clear", "scan", "print", "flush"}
      /\ cpu'[c].at \in {"wait", "scan", "print", "halted", "flush", "clear", "dead"}
      /\ cpu'[c].at = "wait" => cpu[c].job # "panic"
  <2>1. CASE TermClear(c)
    <3>1. /\ cpu'[c].at = (IF cpu[c].job = "panic" THEN "scan" ELSE "wait")
          /\ cpu[c].at = "clear" /\ cpu'[c].job = cpu[c].job
          /\ cpu'[c].left = cpu[c].left /\ Others(c)
      BY <1>t, <2>1 DEF TermClear, CpuType, Others
    <3> QED BY <3>1
  <2>2. CASE Scan(c)
    <3>1. PICK k \in {"scan", "print"} : Moved(c, cpu[c].job, k) /\ cpu'[c].left = cpu[c].left
      BY <2>2 DEF Scan, TypeOK, CpuType, Moved, Others
    <3> QED BY <2>2, <3>1 DEF Scan, Moved
  <2>3. CASE PrintNext(c)
    <3>1. /\ Others(c) /\ cpu'[c].at = "print" /\ cpu'[c].left = cpu[c].left
          /\ cpu'[c].job = cpu[c].job
      BY <1>t, <2>3 DEF PrintNext, CpuType, Others
    <3> QED BY <2>3, <3>1 DEF PrintNext
  <2>4. CASE Printed(c)
    <3>1. PICK k \in {"halted", "flush"} : Moved(c, cpu[c].job, k) /\ cpu'[c].left = cpu[c].left
      BY <2>4, GoMoves DEF Printed, Released
    <3> QED BY <2>4, <3>1 DEF Printed, Moved
  <2>5. CASE fb_swap_buffers(c)
    <3>1. PICK k \in {"dead", "clear"} : Moved(c, cpu[c].job, k) /\ cpu'[c].left = cpu[c].left
      BY <2>5, GoMoves DEF fb_swap_buffers
    <3> QED BY <2>5, <3>1 DEF fb_swap_buffers, Moved
  <2> QED BY <2>1, <2>2, <2>3, <2>4, <2>5 DEF klog_show
<1>3. cpu[c].job # "task"
  BY <1>2, PlaceIs DEF DrawInv, Placed
<1>4. TextOf(c) /\ Fetched(c)' = Fetched(c)
  BY <1>2 DEF TextInv, Fetched
<1>5. TextOf(c)'
  BY <1>2, <1>3, <1>4 DEF TextOf
<1> QED BY <1>g, <1>1, <1>2, <1>5, TextQuiet DEF Mid

LEMMA TimerTexts ==
    ASSUME TextInv, TypeOK, DrawInv, NEW c \in CPU, TimerInterrupt(c)
    PROVE  TextInv'
<1>t. cpu \in [CPU -> CpuType]
  BY DEF TypeOK
<1>g. Goes(c)
  BY StepGoes
<1>1. logged' = logged
  BY DEF TimerInterrupt, Preempt, Resume, halt, log
<1>2. /\ Others(c) /\ cpu[c].at # "put" /\ cpu'[c].at \notin {"put", "wait"}
      /\ cpu[c].job # "panic" /\ cpu'[c].job # "panic"
  <2>1. CASE Preempt(c)
    BY <1>t, <2>1 DEF Preempt, Masked, CpuType, Others
  <2>2. CASE Resume(c)
    BY <1>t, <2>2 DEF Resume, At, CpuType, Others, DrawInv, Placed
  <2>3. CASE halt(c)
    <3>1. Moved(c, cpu[c].job, "halted") /\ cpu'[c].left = cpu[c].left
      BY <2>3, GoMoves DEF halt
    <3> QED BY <2>3, <3>1 DEF halt, Masked, Moved
  <2> QED BY <2>1, <2>2, <2>3 DEF TimerInterrupt
<1>3. TextOf(c)'
  BY <1>2 DEF TextOf
<1> QED BY <1>g, <1>1, <1>2, <1>3, TextQuiet DEF Mid

LEMMA kernel_panicTexts ==
    ASSUME TextInv, TypeOK, DrawInv, NEW c \in CPU, kernel_panic(c)
    PROVE  TextInv'
<1>t. cpu \in [CPU -> CpuType]
  BY DEF TypeOK
<1>g. Goes(c)
  BY StepGoes
<1>1. logged' = logged
  BY DEF kernel_panic, EnterPanic, LockPanic, apic_timer_set_handler, pit_wait, NextText, log
<1>n. Len(PanicTexts) \in Nat \ {0}
  BY ConsoleAssumption
<1>2. CASE EnterPanic(c)
  <2>1. /\ Others(c) /\ cpu'[c].at = "enter" /\ cpu'[c].left = PanicTexts
        /\ cpu[c].at # "put" /\ cpu[c].job # "panic"
    BY <1>t, <1>2 DEF EnterPanic, Masked, CpuType, Others
  <2>2. Fetched(c)' = 0 /\ 0 \in 0..Len(PanicTexts)
    BY <1>n, <2>1 DEF Fetched
  <2>3. \A j \in 1..Len(PanicTexts) : 0+j = j
    OBVIOUS
  <2>4. TextOf(c)'
    <3>1. cpu'[c].job = "panic"
      BY <1>t, <1>2 DEF EnterPanic, CpuType
    <3>2. \A j \in 1..Len(cpu'[c].left) : cpu'[c].left[j] = PanicTexts[Fetched(c)'+j]
      BY <2>1, <2>2, <2>3
    <3> QED BY <2>1, <2>2, <3>1, <3>2 DEF TextOf
  <2> QED BY <1>g, <1>1, <2>1, <2>4, TextQuiet DEF Mid
<1>3. CASE LockPanic(c) \/ apic_timer_set_handler(c) \/ pit_wait(c)
  <2>1. PICK k \in {"set", "pit", "next"} : Go(c, k)
    BY <1>3 DEF LockPanic, apic_timer_set_handler, pit_wait
  <2>2. Moved(c, "panic", k) /\ cpu'[c].left = cpu[c].left
    <3>1. cpu[c].job = "panic"
      BY <1>3 DEF LockPanic, apic_timer_set_handler, pit_wait, At
    <3> QED BY <2>1, <3>1, GoMoves
  <2>3. cpu[c].at \in {"enter", "set", "pit"} /\ cpu[c].job = "panic"
    BY <1>3 DEF LockPanic, apic_timer_set_handler, pit_wait, At
  <2>4. TextOf(c) /\ Fetched(c)' = Fetched(c) /\ Fetched(c) = 0
    BY <2>2, <2>3 DEF TextInv, TextOf, Fetched
  <2>5. LogClosed'
    <3>1. LogClosed
      BY <1>g, <2>3, GoesClosed DEF Mid
    <3>2. NobodyAt("put")' => NobodyAt("put")
      BY <2>2, <2>3 DEF NobodyAt, Moved, Others
    <3> QED BY <1>1, <3>1, <3>2 DEF LogClosed
  <2>6. Behind(c, Fetched(c))'
    BY <2>4, <2>5 DEF Behind
  <2>7. TextOf(c)'
    BY <2>2, <2>3, <2>4, <2>6 DEF TextOf, Moved
  <2> QED BY <1>g, <1>1, <2>2, <2>3, <2>7, TextQuiet DEF Moved, Mid
<1>4. CASE NextText(c)
  <2>1. cpu[c].at = "next" /\ cpu[c].job = "panic"
    BY <1>4 DEF NextText, At
  <2> DEFINE left == cpu[c].left
             k == Fetched(c)
  <2>2. /\ k \in 0..Len(PanicTexts) /\ Behind(c, k)
        /\ \A j \in 1..Len(left) : left[j] = PanicTexts[k+j]
    BY <2>1 DEF TextInv, TextOf
  <2>3. left \in Seq(Seq(STRING)) /\ k = Len(PanicTexts) - Len(left)
    BY <1>t DEF CpuType, Fetched
  <2>4. CASE left = <<>>
    <3>1. cpu' = [cpu EXCEPT ![c].at = "clear"]
      BY <1>4, <2>4 DEF NextText
    <3>2. /\ Others(c) /\ cpu'[c].at = "clear" /\ cpu'[c].left = cpu[c].left
          /\ cpu'[c].job = "panic"
      BY <1>t, <2>1, <3>1 DEF CpuType, Others
    <3>3. k = Len(PanicTexts) /\ k # 0
      BY <1>n, <2>3, <2>4
    <3>4. Closed(logged)
      <4>1. PICK base \in Seq(Char) : Closed(base) /\ logged = base \o Flat[k]
        BY <2>2, <3>3 DEF Behind, PanicLogged
      <4>2. Flat[k] = PanicText /\ Flat[k] \in Seq(Char)
        <5>1. k \in 0..Len(PanicTexts)
          BY <2>2
        <5> QED BY <3>3, <5>1, FlatIs DEF IsFlat
      <4>3. Closed(PanicText)
        BY TextsAssumption
      <4> QED BY <4>1, <4>2, <4>3, ClosedJoined
    <3>5. LogClosed'
      BY <1>1, <3>4 DEF LogClosed
    <3>6. Fetched(c)' = k
      BY <3>2 DEF Fetched
    <3>7. TextOf(c)'
      BY <2>2, <3>2, <3>6 DEF TextOf
    <3> QED BY <1>g, <1>1, <2>1, <3>2, <3>5, <3>7, TextQuiet
  <2>5. CASE left # <<>>
    <3>1. cpu' = [cpu EXCEPT ![c].at = "wait", ![c].text = Head(left), ![c].left = Tail(left)]
      BY <1>4, <1>t, <2>5 DEF NextText, CpuType
    <3>2. /\ Others(c) /\ cpu'[c].at = "wait" /\ cpu'[c].text = Head(left)
          /\ cpu'[c].left = Tail(left) /\ cpu'[c].job = "panic"
      BY <1>t, <2>1, <3>1 DEF CpuType, Others
    <3>m. PICK m : m = k
      OBVIOUS
    <3> HIDE DEF left, k
    <3>3. /\ Head(left) = left[1] /\ 1 \in 1..Len(left)
          /\ Len(Tail(left)) = Len(left) - 1 /\ Len(left) \in Nat \ {0}
          /\ \A j \in 1..Len(left)-1 : Tail(left)[j] = left[j+1] /\ j+1 \in 1..Len(left)
      BY <2>3, <2>5
    <3>4. Fetched(c)' = k+1 /\ k+1 \in 0..Len(PanicTexts) /\ k+1 > 0 /\ (k+1)-1 = k
      BY <1>n, <2>2, <2>3, <3>2, <3>3 DEF Fetched
    <3>5. Head(left) = PanicTexts[k+1]
      BY <2>2, <3>3
    <3>6. ASSUME NEW j \in 1..Len(Tail(left)) PROVE Tail(left)[j] = PanicTexts[(k+1)+j]
      <4>1. j \in 1..Len(left)-1 /\ k+(j+1) = (k+1)+j
        BY <2>2, <3>3
      <4> QED BY <2>2, <3>3, <4>1
    <3>7. Behind(c, m)'
      <4>1. NobodyAt("put")' => NobodyAt("put")
        BY <2>1, <3>2 DEF NobodyAt, Others
      <4>2. LogClosed => LogClosed'
        BY <1>1, <4>1 DEF LogClosed
      <4>3. Quieted(c) => Quieted(c)'
        <5>1. \A d \in CPU \ {c} : cpu'[d] = cpu[d]
          BY <3>2 DEF Others
        <5> QED BY <5>1 DEF Quieted, Halted, At
      <4>4. PanicLogged(logged, m) => PanicLogged(logged, m)'
        BY <1>1 DEF PanicLogged
      <4>5. Behind(c, m)
        BY <2>2, <3>m
      <4> QED BY <4>2, <4>3, <4>4, <4>5 DEF Behind
    <3>8. TextOf(c)'
      <4>1. Fetched(c)' = m+1 /\ (m+1)-1 = m
        BY <3>4, <3>m
      <4>2. Behind(c, Fetched(c)-1)'
        BY <3>7, <4>1
      <4> QED BY <3>2, <3>4, <3>5, <3>6, <4>2 DEF TextOf
    <3>9. Mid(c)'
      BY <3>2 DEF Mid
    <3> QED BY <1>g, <1>1, <2>1, <3>2, <3>8, <3>9, TextQuiet
  <2> QED BY <2>4, <2>5
<1> QED BY <1>2, <1>3, <1>4 DEF kernel_panic

-----------------------------------------------------------------------------
(* A frame.                                                                *)

\* Going back from log_end in the ring.
LEMMA RingFrom ==
    ASSUME TypeOK, RingInv, NEW r \in 0..Held
    PROVE  /\ Held \in Nat /\ Held <= Len(logged)
           /\ Minus(log_end, r) \in Slot
           /\ Minus(log_end, r) = log_start <=> r = Held
           /\ Minus(log_end, r) = log_end <=> r = 0
           /\ r < Held => Minus(Minus(log_end, r), 1) = Minus(log_end, r+1)
           /\ r > 0 => /\ Plus(Minus(log_end, r), 1) = Minus(log_end, r-1)
                       /\ log_buff[Minus(log_end, r)] = logged[Len(logged)-r+1]
<1>1. log_end \in Slot /\ log_start \in Slot /\ N \in Nat \ {0, 1}
  BY NType DEF TypeOK
<1>2. Held = IF log_start <= log_end THEN log_end - log_start ELSE log_end + N - log_start
  BY <1>1, MinusIs DEF Held
<1>3. Held \in Nat /\ Held < N /\ Held <= Len(logged)
  <2>1. Len(logged) \in Nat
    BY DEF TypeOK
  <2>2. Held \in Slot
    BY <1>1, HeldType
  <2> QED BY <1>1, <2>1, <2>2 DEF RingInv, Slot
<1>4. r \in Slot /\ r \in Nat /\ r <= Held /\ 1 \in Slot
  BY <1>1, <1>3 DEF Slot
<1> DEFINE p == Minus(log_end, r)
<1>5. p = IF r <= log_end THEN log_end - r ELSE log_end + N - r
  BY <1>1, <1>4, MinusIs
<1>6. p \in Slot
  BY <1>1, <1>4, <1>5 DEF Slot
<1> HIDE DEF p
<1>7. p = log_start <=> r = Held
  BY <1>1, <1>2, <1>3, <1>4, <1>5 DEF Slot
<1>8. p = log_end <=> r = 0
  BY <1>1, <1>3, <1>4, <1>5 DEF Slot
<1>9. ASSUME r < Held PROVE Minus(p, 1) = Minus(log_end, r+1)
  <2>1. r+1 \in Slot
    BY <1>1, <1>3, <1>4, <1>9 DEF Slot
  <2>2. Minus(log_end, r+1) = IF r+1 <= log_end THEN log_end - (r+1) ELSE log_end + N - (r+1)
    BY <1>1, <2>1, MinusIs
  <2>3. Minus(p, 1) = IF 1 <= p THEN p - 1 ELSE p + N - 1
    BY <1>4, <1>6, MinusIs
  <2> QED BY <1>1, <1>3, <1>4, <1>5, <1>9, <2>2, <2>3 DEF Slot
<1>10. ASSUME r > 0
       PROVE  Plus(p, 1) = Minus(log_end, r-1) /\ log_buff[p] = logged[Len(logged)-r+1]
  <2>1. r-1 \in Slot
    BY <1>1, <1>3, <1>4, <1>10 DEF Slot
  <2>2. Minus(log_end, r-1) = IF r-1 <= log_end THEN log_end - (r-1) ELSE log_end + N - (r-1)
    BY <1>1, <2>1, MinusIs
  <2>3. Plus(p, 1) = IF p + 1 < N THEN p + 1 ELSE p + 1 - N
    BY <1>4, <1>6, PlusIs
  <2>4. Plus(p, 1) = Minus(log_end, r-1)
    BY <1>1, <1>3, <1>4, <1>5, <1>10, <2>2, <2>3 DEF Slot
  <2> DEFINE k == Held - r
  <2>5. k \in Slot /\ k+1 \in 1..Held /\ (k+1)-1 = k
    BY <1>1, <1>3, <1>4, <1>10 DEF Slot
  <2>6. Plus(log_start, k) = IF log_start + k < N THEN log_start + k ELSE log_start + k - N
    BY <1>1, <2>5, PlusIs
  <2>7. Plus(log_start, k) = p
    BY <1>1, <1>2, <1>3, <1>4, <1>5, <1>10, <2>6 DEF Slot
  <2> HIDE DEF k
  <2>8. log_buff[Plus(log_start, (k+1)-1)] = logged[Len(logged) - Held + (k+1)]
    BY <2>5 DEF RingInv
  <2>9. Len(logged) - Held + (k+1) = Len(logged)-r+1
    <3>1. Len(logged) \in Nat
      BY DEF TypeOK
    <3> QED BY <1>3, <1>4, <3>1 DEF k
  <2> QED BY <2>4, <2>5, <2>7, <2>8, <2>9
<1> QED BY <1>3, <1>6, <1>7, <1>8, <1>9, <1>10 DEF p

LEMMA NewestIs ==
    ASSUME TypeOK, RingInv, NEW v \in 0..Held
    PROVE  /\ Newest(v) \in Seq(Char) /\ Len(Newest(v)) = v
           /\ \A k \in 1..v : Newest(v)[k] = logged[Len(logged)-v+k]
<1>1. logged \in Seq(Char) /\ Len(logged) \in Nat
  BY DEF TypeOK
<1>2. Held \in Nat /\ Held <= Len(logged)
  BY RingFrom
<1>3. v \in 0..Len(logged)
  BY <1>1, <1>2
<1> QED BY <1>1, <1>3, LastOfIs DEF Newest

\* How far cpu c is with its frame.
Frame(c) ==
    /\ At(c, "display", "wait") =>
          term = term_init /\ cpu[c].used = 0 /\ cpu[c].visible = 0
    /\ cpu[c].at \in {"scan", "print"} => cpu[c].visible \in 0..Held
    /\ cpu[c].at = "scan" =>
          /\ term = term_init
          /\ cpu[c].visible > 0 => cpu[c].i = Minus(log_end, cpu[c].visible)
          /\ cpu[c].visible = 0 => cpu[c].used = 0
    /\ cpu[c].at = "print" =>
          /\ cpu[c].visible = 0 => Held = 0
          /\ \E j \in 0..cpu[c].visible :
                /\ cpu[c].i = Minus(log_end, cpu[c].visible - j)
                /\ term = Drawing(term_init, Newest(cpu[c].visible))[j]

(* Between frames the terminal takes no character for part of an escape    *)
(* sequence that the last frame left open, and draws in the default colours.*)
FrameInv ==
    /\ term \in Term
    /\ NobodyAt("print") => Mode(term) = Mode(term_init)
    /\ \A c \in CPU : Frame(c)

\* Cpu c has the terminal.
Uses(c) == Draws(c) \/ At(c, "display", "wait")

LEMMA UsesAlone ==
    ASSUME TypeOK, DrawInv, NEW c \in CPU, NEW d \in CPU, Uses(c), c # d
    PROVE  /\ ~Draws(c) \/ ~Uses(d)
           /\ cpu[c].at \in {"scan", "print"} => cpu[d].at # "put"
<1>1. cpu[c].job \in Job /\ cpu[d].job \in Job
  BY DEF TypeOK, CpuType
<1>2. DrawsAlone
  BY DrawInvImplies
<1>3. ASSUME Draws(c) PROVE cpu[c].job = "display" \/ Alone(c)
  BY <1>1, <1>3, PlaceIs DEF Draws, DrawInv, Placed, Alone, Job
<1>4. ASSUME Draws(c), At(d, "display", "wait") PROVE FALSE
  <2>1. CASE cpu[c].job = "display"
    BY <1>4, <2>1 DEF DrawInv, OneDisplay, At
  <2>2. CASE Alone(c)
    BY <1>4, <2>2 DEF DrawInv, Stopped, Halted, At, Draws
  <2> QED BY <1>3, <1>4, <2>1, <2>2
<1>5. ASSUME cpu[c].at \in {"scan", "print"}, cpu[d].at = "put" PROVE FALSE
  <2>0. Draws(c)
    BY <1>5 DEF Draws
  <2>1. CASE cpu[c].job = "display"
    <3>1. log_lock = c /\ log_lock = d
      BY <1>5, <2>1 DEF DrawInv, LockOwner
    <3> QED BY <3>1
  <2>2. CASE Alone(c)
    BY <1>5, <2>2 DEF DrawInv, Stopped, Halted, At
  <2> QED BY <2>0, <1>3, <2>1, <2>2
<1>6. ASSUME Draws(c), Draws(d) PROVE FALSE
  BY <1>2, <1>6 DEF DrawsAlone
<1> QED BY <1>4, <1>5, <1>6 DEF Uses

\* Whoever shows the log finds a closed one.
LEMMA ShownIsClosed ==
    ASSUME TypeOK, DrawInv, TextInv, NEW c \in CPU, cpu[c].at \in {"scan", "print"}
    PROVE  Closed(logged)
<1>1. Goes(c) /\ ~Mid(c)
  BY DEF Goes, Halted, At, Mid
<1>2. NobodyAt("put")
  BY UsesAlone DEF NobodyAt, Uses, Draws
<1> QED BY <1>1, <1>2, GoesClosed DEF LogClosed

\* A step of c leaves the frame of another cpu alone.
LEMMA FrameOthers ==
    ASSUME TypeOK, DrawInv, FrameInv, NEW c \in CPU, Others(c),
           term' = term \/ Draws(c), UNCHANGED log \/ cpu[c].at = "put",
           NEW d \in CPU, d # c
    PROVE  Frame(d)'
<1>1. cpu'[d] = cpu[d] /\ Frame(d)
  BY DEF Others, FrameInv
<1>2. CASE ~Uses(d)
  BY <1>1, <1>2 DEF Frame, Uses, Draws, At
<1>3. CASE Uses(d)
  <2>1. term' = term
    <3>1. Draws(c) => Uses(c)
      BY DEF Uses
    <3> QED BY <1>3, <3>1, UsesAlone
  <2>2. CASE cpu[d].at \in {"scan", "print"}
    <3>1. UNCHANGED <<log_end, log_start, logged>>
      BY <1>3, <2>2, UsesAlone DEF log
    <3> QED BY <1>1, <2>1, <3>1 DEF Frame, Held, Newest, At
  <2>3. CASE cpu[d].at \notin {"scan", "print"}
    BY <1>1, <2>1, <2>3 DEF Frame, At
  <2> QED BY <2>2, <2>3
<1> QED BY <1>2, <1>3

\* A step of c that does not draw and does not begin to.
LEMMA FrameSame ==
    ASSUME TypeOK, DrawInv, FrameInv, NEW c \in CPU, Others(c),
           term' = term, UNCHANGED log \/ cpu[c].at = "put",
           cpu[c].at # "print", cpu'[c].at \notin {"scan", "print"},
           cpu'[c].at # "wait" \/ cpu'[c].job # "display"
    PROVE  FrameInv'
<1>1. Frame(c)'
  BY DEF Frame, At
<1>2. \A d \in CPU : Frame(d)'
  BY <1>1, FrameOthers
<1>3. NobodyAt("print")' => NobodyAt("print")
  BY DEF NobodyAt, Others
<1> QED BY <1>2, <1>3 DEF FrameInv

LEMMA InitFrame == Init => FrameInv
<1> SUFFICES ASSUME Init PROVE FrameInv
  OBVIOUS
<1>1. \A c \in CPU : cpu[c].at = "idle"
  BY DEF Init
<1>2. term = term_init
  BY DEF Init
<1> QED BY <1>1, <1>2, InitTerm DEF FrameInv, Frame, At

LEMMA klogFrame ==
    ASSUME TypeOK, DrawInv, FrameInv, NEW c \in CPU, klog(c)
    PROVE  FrameInv'
<1>t. cpu \in [CPU -> CpuType]
  BY DEF TypeOK
<1>0. term' = term
  BY DEF klog, Call, LockLog, putch, Logged
<1>1. CASE Call(c)
  <2>1. Moved(c, "task", "wait")
    BY <1>1 DEF Call, TypeOK, CpuType, Moved, Others, At
  <2>2. UNCHANGED log /\ cpu[c].at = "idle"
    BY <1>1 DEF Call, At
  <2> QED BY <1>0, <2>1, <2>2, FrameSame DEF Moved
<1>2. CASE LockLog(c)
  <2>1. Moved(c, cpu[c].job, IF cpu[c].job = "display" THEN "scan" ELSE "put")
    BY <1>2, GoMoves DEF LockLog, lock_wait
  <2>2. UNCHANGED log /\ cpu[c].at = "wait"
        /\ cpu'[c].used = cpu[c].used /\ cpu'[c].visible = cpu[c].visible
    BY <1>2, <1>t DEF LockLog, lock_wait, Go, CpuType
  <2>3. CASE cpu[c].job # "display"
    BY <1>0, <2>1, <2>2, <2>3, FrameSame DEF Moved
  <2>4. CASE cpu[c].job = "display"
    <3>1. Others(c) /\ cpu'[c].at = "scan"
      BY <2>1, <2>4 DEF Moved
    <3>2. term' = term_init /\ cpu'[c].used = 0 /\ cpu'[c].visible = 0
      BY <1>0, <2>2, <2>4 DEF FrameInv, Frame, At
    <3>3. Held' \in Nat
      <4>1. Held' = Held
        BY <2>2 DEF Held, log
      <4>2. Held \in Slot /\ Slot \subseteq Nat
        BY HeldType, NType DEF TypeOK
      <4> QED BY <4>1, <4>2
    <3>4. Frame(c)'
      <4>1. 0 \in 0..Held'
        BY <3>3
      <4> QED BY <3>1, <3>2, <4>1 DEF Frame, At
    <3>5. \A d \in CPU : Frame(d)'
      BY <1>0, <2>2, <3>1, <3>4, FrameOthers
    <3> QED BY <3>2, <3>5, InitTerm DEF FrameInv
  <2> QED BY <2>3, <2>4
<1>3. CASE putch(c)
  <2>1. Others(c) /\ cpu'[c].at = "put" /\ cpu[c].at = "put"
    BY <1>3, <1>t DEF putch, CpuType, Others
  <2> QED BY <1>0, <2>1, FrameSame
<1>4. CASE Logged(c)
  <2>1. PICK k \in {"halted", "next", "idle"} : Moved(c, cpu[c].job, k)
    BY <1>4, GoMoves DEF Logged, Released
  <2>2. cpu[c].at = "put"
    BY <1>4 DEF Logged
  <2> QED BY <1>0, <2>1, <2>2, FrameSame DEF Moved
<1> QED BY <1>1, <1>2, <1>3, <1>4 DEF klog

LEMMA TimerFrame ==
    ASSUME TypeOK, DrawInv, FrameInv, NEW c \in CPU, TimerInterrupt(c)
    PROVE  FrameInv'
<1>t. cpu \in [CPU -> CpuType]
  BY DEF TypeOK
<1>1. term' = term /\ UNCHANGED log
  BY DEF TimerInterrupt, Preempt, Resume, halt
<1>2. Others(c) /\ cpu[c].at # "print" /\ cpu'[c].at \notin {"scan", "print", "wait"}
  <2>1. CASE Preempt(c)
    BY <1>t, <2>1 DEF Preempt, Masked, CpuType, Others
  <2>2. CASE Resume(c)
    BY <1>t, <2>2 DEF Resume, At, CpuType, Others, DrawInv, Placed
  <2>3. CASE halt(c)
    <3>1. Moved(c, cpu[c].job, "halted")
      BY <2>3, GoMoves DEF halt
    <3> QED BY <2>3, <3>1 DEF halt, Masked, Moved
  <2> QED BY <2>1, <2>2, <2>3 DEF TimerInterrupt
<1> QED BY <1>1, <1>2, FrameSame

LEMMA kernel_panicFrame ==
    ASSUME TypeOK, DrawInv, FrameInv, NEW c \in CPU, kernel_panic(c)
    PROVE  FrameInv'
<1>t. cpu \in [CPU -> CpuType]
  BY DEF TypeOK
<1>1. term' = term /\ UNCHANGED log
  BY DEF kernel_panic, EnterPanic, LockPanic, apic_timer_set_handler, pit_wait, NextText
<1>2. /\ Others(c) /\ cpu[c].at # "print" /\ cpu'[c].at \notin {"scan", "print"}
      /\ cpu'[c].job # "display"
  <2>1. CASE EnterPanic(c)
    BY <1>t, <2>1 DEF EnterPanic, Masked, CpuType, Others
  <2>2. CASE LockPanic(c) \/ apic_timer_set_handler(c) \/ pit_wait(c)
    <3>1. PICK k \in {"set", "pit", "next"} : Go(c, k)
      BY <2>2 DEF LockPanic, apic_timer_set_handler, pit_wait
    <3>2. Moved(c, cpu[c].job, k)
      BY <3>1, GoMoves
    <3>3. cpu[c].job = "panic" /\ cpu[c].at # "print"
      BY <2>2 DEF LockPanic, apic_timer_set_handler, pit_wait, At
    <3> QED BY <3>2, <3>3 DEF Moved
  <2>3. CASE NextText(c)
    <3>1. Moved(c, "panic", IF cpu[c].left = <<>> THEN "clear" ELSE "wait")
      BY <2>3, <1>t DEF NextText, CpuType, Moved, Others, At
    <3> QED BY <2>3, <3>1 DEF NextText, At, Moved
  <2> QED BY <2>1, <2>2, <2>3 DEF kernel_panic
<1> QED BY <1>1, <1>2, FrameSame

LEMMA ClearedIs ==
    ASSUME NEW t \in Term, Mode(t) = Mode(term_init)
    PROVE  term_clear(t) = term_init
<1>1. /\ t.state = "READY" /\ t.cparams = <<>>
      /\ t.fgcolor = DEFAULT_FGCOLOR /\ t.bgcolor = DEFAULT_BGCOLOR
  BY InitTerm, ModeIs
<1>2. t = [state |-> t.state, cparams |-> t.cparams, fgcolor |-> t.fgcolor,
           bgcolor |-> t.bgcolor, cursor_x |-> t.cursor_x, cursor_y |-> t.cursor_y,
           screen |-> t.screen]
  BY Zenon DEF Term
<1> DEFINE empty == [cell \in Cell |-> Blank(DEFAULT_BGCOLOR)]
<1>3. term_clear(t) = [t EXCEPT !.screen = empty, !.cursor_x = 0, !.cursor_y = 0]
  BY <1>1 DEF term_clear
<1>4. term_init = [state |-> "READY", cparams |-> <<>>, fgcolor |-> DEFAULT_FGCOLOR,
                   bgcolor |-> DEFAULT_BGCOLOR, cursor_x |-> 0, cursor_y |-> 0,
                   screen |-> empty]
  BY DEF term_init
<1> HIDE DEF empty
<1>5. term_clear(t) = [state |-> t.state, cparams |-> t.cparams, fgcolor |-> t.fgcolor,
                       bgcolor |-> t.bgcolor, cursor_x |-> 0, cursor_y |-> 0,
                       screen |-> empty]
  BY ONLY <1>2, <1>3
<1> QED BY <1>1, <1>4, <1>5

\* The end of a scan: every place that the ring holds was read, or enough of
\* them to fill the screen.
LEMMA ScanFrame ==
    ASSUME TypeOK, RingInv, DrawInv, FrameInv, NEW c \in CPU, Scan(c)
    PROVE  FrameInv'
<1> DEFINE v == cpu[c].visible
           i == IF v = 0 THEN log_end ELSE cpu[c].i
<1>t. cpu \in [CPU -> CpuType]
  BY DEF TypeOK
<1>0. /\ cpu[c].at = "scan" /\ term' = term /\ UNCHANGED log /\ Draws(c)
      /\ UNCHANGED <<log_start, log_end, logged, log_buff>>
  BY DEF Scan, log, Draws
<1>1. /\ v \in 0..Held /\ term = term_init
      /\ v > 0 => cpu[c].i = Minus(log_end, v)
      /\ v = 0 => cpu[c].used = 0
  BY <1>0 DEF FrameInv, Frame
<1>2. /\ Held \in Nat
      /\ Minus(log_end, v) = log_start <=> v = Held
      /\ Minus(log_end, v) = log_end <=> v = 0
      /\ v < Held => Minus(Minus(log_end, v), 1) = Minus(log_end, v+1)
  BY <1>1, RingFrom
<1>3. i = Minus(log_end, v)
  BY <1>1, <1>2
<1>4. Held' = Held /\ \A r : Newest(r)' = Newest(r)
  BY <1>0 DEF Held, Newest
<1>5. CASE i # log_start /\ cpu[c].used < term_width * term_height
  <2> DEFINE u == CASE log_buff[i] = "\n" -> Lines(cpu[c].used)
                    [] log_buff[i] = NUL  -> cpu[c].used
                    [] OTHER              -> cpu[c].used + 1
  <2>1. cpu' = [cpu EXCEPT ![c].used = u, ![c].visible = v + 1, ![c].i = Minus(i, 1)]
    BY <1>5, <1>t DEF Scan, CpuType
  <2> HIDE DEF u, i, v
  <2>2. /\ Others(c) /\ cpu'[c].at = "scan" /\ cpu'[c].visible = v + 1
        /\ cpu'[c].i = Minus(i, 1)
    BY <1>0, <1>t, <2>1 DEF CpuType, Others
  <2>3. v < Held /\ v + 1 \in 0..Held /\ v + 1 > 0
    BY <1>1, <1>2, <1>3, <1>5
  <2>4. cpu'[c].i = Minus(log_end, v+1)
    BY <1>2, <1>3, <2>2, <2>3
  <2>5. Frame(c)'
    <3>1. v + 1 # 0
      BY <1>1
    <3> QED BY <1>0, <1>1, <1>4, <2>2, <2>3, <2>4, <3>1 DEF Frame, At
  <2>6. \A d \in CPU : Frame(d)'
    BY <1>0, <2>2, <2>5, FrameOthers
  <2> QED BY <1>0, <1>1, <2>6, InitTerm DEF FrameInv
<1>6. CASE ~(i # log_start /\ cpu[c].used < term_width * term_height)
  <2>1. cpu' = [cpu EXCEPT ![c].at = "print", ![c].i = Minus(log_end, v)]
    BY <1>6 DEF Scan
  <2>2. v = 0 => Held = 0
    <3>1. ASSUME v = 0 PROVE cpu[c].used < term_width * term_height
      <4>1. \A a, b \in Nat \ {0} : 0 < a * b
        BY SMTT(30)
      <4> QED BY <1>1, <3>1, <4>1, SizeType
    <3> QED BY <1>2, <1>3, <1>6, <3>1
  <2> HIDE DEF i, v
  <2>3. /\ Others(c) /\ cpu'[c].at = "print" /\ cpu'[c].visible = v
        /\ cpu'[c].i = Minus(log_end, v)
    BY <1>t, <2>1 DEF CpuType, Others, v
  <2>4. Frame(c)'
    <3>1. PICK n \in 0..Held : n = v
      BY <1>1
    <3>2. Newest(n) \in Seq(Char)
      BY NewestIs
    <3>3. term = Drawing(term_init, Newest(n))[0]
      BY <1>1, <3>2, InitTerm, DrawingIs
    <3>4. /\ term' = Drawing(term_init, LastOf(logged', n))[0]
          /\ cpu'[c].i = Minus(log_end', n - 0) /\ 0 \in 0..n
      BY <1>0, <1>2, <2>3, <3>1, <3>3 DEF Newest
    <3>5. \E j \in 0..n : /\ cpu'[c].i = Minus(log_end', n - j)
                          /\ term' = Drawing(term_init, LastOf(logged', n))[j]
      BY ONLY <3>4
    <3>6. cpu'[c].visible = n /\ n \in 0..Held' /\ (n = 0 => Held' = 0)
      BY <1>4, <2>2, <2>3, <3>1
    <3> QED BY ONLY <2>3, <3>5, <3>6 DEF Frame, At, Newest
  <2>5. \A d \in CPU : Frame(d)'
    BY <1>0, <2>3, <2>4, FrameOthers
  <2> QED BY <1>0, <1>1, <2>5, InitTerm DEF FrameInv
<1> QED BY <1>5, <1>6

LEMMA PrintFrame ==
    ASSUME TypeOK, RingInv, DrawInv, FrameInv, NEW c \in CPU, PrintNext(c)
    PROVE  FrameInv'
<1>t. cpu \in [CPU -> CpuType]
  BY DEF TypeOK
<1>0. /\ cpu[c].at = "print" /\ cpu[c].i # log_end /\ UNCHANGED log /\ Draws(c)
      /\ UNCHANGED <<log_start, log_end, logged, log_buff>>
      /\ term' = term_putchar(term, log_buff[cpu[c].i])
      /\ cpu' = [cpu EXCEPT ![c].i = Plus(cpu[c].i, 1)]
  BY <1>t DEF PrintNext, log, Draws, CpuType
<1>1. PICK n \in 0..Held : n = cpu[c].visible
  BY <1>0 DEF FrameInv, Frame
<1>2. PICK j \in 0..n : cpu[c].i = Minus(log_end, n-j) /\ term = Drawing(term_init, Newest(n))[j]
  BY <1>0, <1>1 DEF FrameInv, Frame
<1>3. Held \in Nat /\ (n = 0 => Held = 0)
  <2>1. Held \in Nat
    BY <1>1, RingFrom
  <2> QED BY <1>0, <1>1, <2>1 DEF FrameInv, Frame
<1> DEFINE r == n - j
<1>4. r \in 0..Held /\ r - 1 = n - (j+1)
  BY <1>1, <1>2, <1>3
<1> HIDE DEF r
<1>5. /\ Minus(log_end, r) = log_end <=> r = 0
      /\ r > 0 => /\ Plus(Minus(log_end, r), 1) = Minus(log_end, r-1)
                  /\ log_buff[Minus(log_end, r)] = logged[Len(logged)-r+1]
  BY <1>4, RingFrom
<1>6. r > 0 /\ j+1 \in 1..n /\ j+1 \in 0..n /\ (j+1)-1 = j
  <2>1. cpu[c].i = Minus(log_end, r) /\ r # 0
    BY <1>0, <1>2, <1>5 DEF r
  <2> QED BY ONLY <1>1, <1>2, <1>3, <1>4, <2>1 DEF r
<1>7. /\ Newest(n) \in Seq(Char) /\ Len(Newest(n)) = n
      /\ \A k \in 1..n : Newest(n)[k] = logged[Len(logged)-n+k]
  BY NewestIs
<1>8. log_buff[cpu[c].i] = Newest(n)[j+1]
  <2>1. Len(logged) - r + 1 = Len(logged)-n+(j+1)
    <3>1. Len(logged) \in Nat
      BY DEF TypeOK
    <3>2. n \in Nat /\ j \in Nat
      BY <1>1, <1>2, <1>3
    <3>3. \A a, b, k \in Nat : a - (b - k) + 1 = a - b + (k+1)
      BY ONLY TRUE
    <3> QED BY <3>1, <3>2, <3>3 DEF r
  <2>2. log_buff[cpu[c].i] = logged[Len(logged)-r+1]
    BY <1>2, <1>5, <1>6 DEF r
  <2> QED BY <1>6, <1>7, <2>1, <2>2
<1>9. /\ Drawing(term_init, Newest(n)) \in [0..n -> Term]
      /\ Drawing(term_init, Newest(n))[j+1] =
            term_putchar(Drawing(term_init, Newest(n))[j], Newest(n)[j+1])
  <2>1. /\ Drawing(term_init, Newest(n)) \in [0..n -> Term]
        /\ \A k \in 1..n : Drawing(term_init, Newest(n))[k] =
              term_putchar(Drawing(term_init, Newest(n))[k-1], Newest(n)[k])
    <3>1. \A s \in Seq(Char) :
             /\ Drawing(term_init, s) \in [0..Len(s) -> Term]
             /\ \A k \in 1..Len(s) : Drawing(term_init, s)[k] =
                   term_putchar(Drawing(term_init, s)[k-1], s[k])
      BY ONLY InitTerm, DrawingIs
    <3> QED BY ONLY <1>7, <3>1
  <2> QED BY ONLY <1>6, <2>1
<1>10. term' = Drawing(term_init, Newest(n))[j+1] /\ term' \in Term
  BY <1>0, <1>2, <1>6, <1>8, <1>9
<1>11. /\ Others(c) /\ cpu'[c].at = "print" /\ cpu'[c].visible = n
       /\ cpu'[c].i = Plus(cpu[c].i, 1)
  BY <1>0, <1>1, <1>t DEF CpuType, Others
<1>12. Frame(c)'
  <2>1. /\ term' = Drawing(term_init, LastOf(logged', n))[j+1]
        /\ cpu'[c].i = Minus(log_end', n - (j+1))
    BY <1>0, <1>2, <1>4, <1>5, <1>6, <1>10, <1>11 DEF Newest
  <2>2. \E k \in 0..n : /\ cpu'[c].i = Minus(log_end', n - k)
                        /\ term' = Drawing(term_init, LastOf(logged', n))[k]
    BY ONLY <1>6, <2>1
  <2>3. Held' = Held
    BY <1>0 DEF Held
  <2>4. n \in 0..Held' /\ (n = 0 => Held' = 0)
    BY <1>1, <1>3, <2>3
  <2> QED BY ONLY <1>11, <2>2, <2>4 DEF Frame, At, Newest
<1>13. \A d \in CPU : Frame(d)'
  BY <1>0, <1>11, <1>12, FrameOthers
<1>14. ~NobodyAt("print")'
  BY <1>11 DEF NobodyAt
<1> QED BY <1>10, <1>13, <1>14 DEF FrameInv

\* All of a frame that is drawn is the end of the log.
LEMMA PrintedIs ==
    ASSUME TypeOK, RingInv, DrawInv, FrameInv, NEW c \in CPU,
           cpu[c].at = "print", cpu[c].i = log_end, NEW n \in 0..Held, n = cpu[c].visible
    PROVE  term = Drawing(term_init, Newest(n))[n] /\ (n = 0 => Held = 0)
<1>1. PICK j \in 0..n : log_end = Minus(log_end, n-j) /\ term = Drawing(term_init, Newest(n))[j]
  BY DEF FrameInv, Frame
<1>2. n = 0 => Held = 0
  BY DEF FrameInv, Frame
<1>3. Held \in Nat
  BY RingFrom
<1>4. n-j \in 0..Held
  BY <1>1, <1>3
<1>5. n-j = 0
  BY <1>1, <1>4, RingFrom
<1>6. j = n
  BY <1>3, <1>5
<1> QED BY <1>1, <1>2, <1>6

LEMMA PrintedFrame ==
    ASSUME TypeOK, RingInv, DrawInv, TextInv, FrameInv, NEW c \in CPU, Printed(c)
    PROVE  FrameInv'
<1>0. /\ cpu[c].at = "print" /\ cpu[c].i = log_end /\ UNCHANGED log /\ Draws(c)
      /\ term' = term
  BY DEF Printed, Draws
<1>1. PICK k \in {"halted", "flush"} : Moved(c, cpu[c].job, k)
  BY GoMoves DEF Printed, Released
<1>2. PICK n \in 0..Held : n = cpu[c].visible
  BY <1>0 DEF FrameInv, Frame
<1>3. term = Drawing(term_init, Newest(n))[n]
  BY <1>0, <1>2, PrintedIs
<1>4. Closed(logged)
  BY <1>0, ShownIsClosed
<1>5. n \in 0..Len(logged)
  <2>1. Held \in Nat /\ Held <= Len(logged) /\ Len(logged) \in Nat
    BY <1>2, RingFrom DEF TypeOK
  <2> QED BY <1>2, <2>1
<1>6. Mode(term) = Mode(term_init)
  BY <1>3, <1>4, <1>5 DEF Closed, Newest
<1>7. Frame(c)'
  BY <1>1 DEF Frame, At, Moved
<1>8. \A d \in CPU : Frame(d)'
  BY <1>0, <1>1, <1>7, FrameOthers DEF Moved
<1> QED BY <1>0, <1>6, <1>8 DEF FrameInv

LEMMA klog_showFrame ==
    ASSUME TypeOK, RingInv, DrawInv, TextInv, FrameInv, NEW c \in CPU, klog_show(c)
    PROVE  FrameInv'
<1>t. cpu \in [CPU -> CpuType]
  BY DEF TypeOK
<1>1. CASE TermClear(c)
  <2>1. /\ cpu' = [cpu EXCEPT ![c].at = IF cpu[c].job = "panic" THEN "scan" ELSE "wait",
                              ![c].used = 0, ![c].visible = 0]
        /\ cpu[c].at = "clear" /\ term' = term_clear(term) /\ UNCHANGED log
        /\ UNCHANGED <<log_start, log_end>>
    BY <1>1 DEF TermClear, log
  <2>2. /\ Others(c) /\ cpu'[c].used = 0 /\ cpu'[c].visible = 0
        /\ cpu'[c].at \in {"scan", "wait"}
    BY <1>t, <2>1 DEF CpuType, Others
  <2>3. Draws(c)
    BY <2>1 DEF Draws
  <2>4. NobodyAt("print")
    <3>1. ASSUME NEW d \in CPU, cpu[d].at = "print" PROVE FALSE
      BY <2>1, <2>3, <3>1, UsesAlone DEF Uses, Draws
    <3> QED BY <3>1 DEF NobodyAt
  <2>5. term' = term_init
    BY <2>1, <2>4, ClearedIs DEF FrameInv
  <2>6. 0 \in 0..Held'
    <3>1. Held' = Held
      BY <2>1 DEF Held
    <3>2. Held \in Slot /\ Slot \subseteq Nat
      BY HeldType, NType DEF TypeOK
    <3> QED BY <3>1, <3>2
  <2>7. Frame(c)'
    BY <2>2, <2>5, <2>6 DEF Frame, At
  <2>8. \A d \in CPU : Frame(d)'
    BY <2>1, <2>2, <2>3, <2>7, FrameOthers
  <2> QED BY <2>5, <2>8, InitTerm DEF FrameInv
<1>2. CASE Scan(c)
  BY <1>2, ScanFrame
<1>3. CASE PrintNext(c)
  BY <1>3, PrintFrame
<1>4. CASE Printed(c)
  BY <1>4, PrintedFrame
<1>5. CASE fb_swap_buffers(c)
  <2>1. PICK k \in {"dead", "clear"} : Moved(c, cpu[c].job, k)
    BY <1>5, GoMoves DEF fb_swap_buffers
  <2>2. cpu[c].at = "flush" /\ term' = term /\ UNCHANGED log
    BY <1>5 DEF fb_swap_buffers
  <2> QED BY <2>1, <2>2, FrameSame DEF Moved
<1> QED BY <1>1, <1>2, <1>3, <1>4, <1>5 DEF klog_show

LEMMA FrameStep ==
    ASSUME TypeOK, RingInv, DrawInv, TextInv, FrameInv, [Next]_consoleVars
    PROVE  TextInv' /\ FrameInv'
<1>1. CASE Next
  <2>1. PICK c \in CPU : klog(c) \/ klog_show(c) \/ TimerInterrupt(c) \/ kernel_panic(c)
    BY <1>1 DEF Next
  <2>2. TextInv'
    BY <2>1, klogTexts, klog_showTexts, TimerTexts, kernel_panicTexts
  <2>3. FrameInv'
    BY <2>1, klogFrame, klog_showFrame, TimerFrame, kernel_panicFrame
  <2> QED BY <2>2, <2>3
<1>2. CASE UNCHANGED consoleVars
  <2>1. UNCHANGED <<cpu, term, logged, log_end, log_start>>
    BY <1>2 DEF consoleVars, log
  <2>2. TextInv'
    BY <2>1 DEF TextInv, TextOf, Fetched, Behind, Quieted, LogClosed, Halted, At, Mid, NobodyAt
  <2>3. ASSUME NEW c \in CPU PROVE Frame(c)'
    BY <2>1 DEF FrameInv, Frame, At, Held, Newest
  <2>4. FrameInv'
    BY <2>1, <2>3 DEF FrameInv, NobodyAt
  <2> QED BY <2>2, <2>4
<1> QED BY <1>1, <1>2

\* The last character of a closed text is in front of the cursor.
LEMMA LastShows ==
    ASSUME term_height > 1, NEW s \in Seq(Char), NEW n \in 1..Len(s), Closed(s),
           s[Len(s)] \notin {"\n", "\t", "m"}
    PROVE  LET u == Drawing(term_init, LastOf(s, n))[n]
           IN  BeforeCursor(u) \in Cell /\ u.screen[BeforeCursor(u)][1] = s[Len(s)]
<1> DEFINE r == LastOf(s, n)
           D == Drawing(term_init, r)
           c == s[Len(s)]
<1>0. s \in Seq(Char)
  OBVIOUS
<1>1. Len(s) \in Nat /\ n \in 0..Len(s) /\ Len(s) \in 1..Len(s)
  OBVIOUS
<1>2. r \in Seq(Char) /\ Len(r) = n /\ \A k \in 1..n : r[k] = s[Len(s)-n+k]
  BY <1>1, LastOfIs
<1>3. n \in 1..n /\ Len(s)-n+n = Len(s) /\ n-1 \in 0..n
  BY <1>1
<1>4. r[n] = c /\ c \in Char
  BY <1>1, <1>2, <1>3
<1> HIDE DEF r
<1>5. /\ D \in [0..n -> Term] /\ D[0] = term_init
      /\ \A k \in 1..n : D[k] = term_putchar(D[k-1], r[k])
  BY <1>2, InitTerm, DrawingIs
<1>6. Mode(D[n]) = Mode(term_init)
  BY <1>1 DEF Closed, r
<1> HIDE DEF D
<1> DEFINE t == D[n-1]
           p == parse_cmd_byte(t, c)
<1>7. t \in Term /\ D[n] \in Term /\ D[n] = term_putchar(t, c)
  BY <1>3, <1>4, <1>5
<1> HIDE DEF t
<1>8. ~p.taken
  <2> SUFFICES ASSUME p.taken PROVE FALSE
    OBVIOUS
  <2>1. p.t.state = "READY"
    <3>1. D[n].state = "READY"
      BY <1>6, <1>7, InitTerm, ModeIs
    <3>2. D[n] = p.t
      BY <1>4, <1>7, PutcharIs
    <3> QED BY <3>1, <3>2
  <2>2. c = "c" /\ t.state = "CMD_WAIT"
    <3>1. c \in {"c", "m"} /\ (c = "c" => t.state = "CMD_WAIT")
      BY <1>7, <2>1, ParseTyped
    <3> QED BY <3>1
  <2>3. n-1 # 0
    BY <1>5, <2>2, InitTerm DEF t
  <2>4. n-1 \in 1..n /\ (n-1)-1 \in 0..n
    BY <1>1, <2>3
  <2> DEFINE q == D[(n-1)-1]
  <2>5. q \in Term /\ r[n-1] \in Char /\ t = term_putchar(q, r[n-1])
    BY <1>2, <1>5, <2>4 DEF t
  <2> HIDE DEF q
  <2>6. parse_cmd_byte(q, r[n-1]).t.state = "CMD_WAIT"
    <3>1. Mode(t) = Mode(parse_cmd_byte(q, r[n-1]).t) /\ parse_cmd_byte(q, r[n-1]).t \in Term
      BY <2>5, PutcharIs, ParseTyped
    <3> QED BY <1>7, <2>2, <3>1, ModeIs
  <2>7. r[n-1] = ESC
    BY <2>5, <2>6, ParseTyped
  <2>8. s[Len(s)-1] = ESC /\ Len(s) > 1
    <3>1. Len(s)-n+(n-1) = Len(s)-1 /\ Len(s) > 1
      BY <1>1, <2>3
    <3> QED BY <1>2, <2>4, <2>7, <3>1
  <2>9. LastOf(s, 2) = <<ESC, "c">>
    <3>1. LastOf(s, 2) = <<s[Len(s)-1], s[Len(s)]>>
      BY ONLY <1>0, <2>8, LastTwo
    <3> QED BY <2>2, <2>8, <3>1
  <2> QED BY <2>8, <2>9 DEF Closed
<1>9. c \notin {"\n", "\t"}
  OBVIOUS
<1> HIDE DEF c, p
<1>10. BeforeCursor(D[n]) \in Cell /\ D[n].screen[BeforeCursor(D[n])][1] = c
  BY <1>4, <1>7, <1>8, <1>9, PutcharShows DEF p
<1> QED BY ONLY <1>10 DEF D, r, c

LEMMA FrameInvImplies ==
    ASSUME term_height > 1, TypeOK, RingInv, DrawInv, TextInv, FrameInv
    PROVE  FrameIsTail
<1> SUFFICES ASSUME NEW c \in CPU, cpu[c].at = "print", cpu[c].i = log_end
             PROVE  /\ term.screen = Rendered(cpu[c].visible)
                    /\ cpu[c].visible = 0 => logged = <<>>
                    /\ logged # <<>> /\ Last(logged) \notin {"\n", "\t", "m"} =>
                          BeforeCursor(term) \in Cell /\ term.screen[BeforeCursor(term)][1] = Last(logged)
  BY DEF FrameIsTail
<1>1. PICK n \in 0..Held : n = cpu[c].visible
  BY DEF FrameInv, Frame
<1>2. term = Drawing(term_init, Newest(n))[n] /\ (n = 0 => Held = 0)
  BY <1>1, PrintedIs
<1>3. logged \in Seq(Char) /\ Len(logged) \in Nat /\ Held \in Nat /\ Held <= Len(logged)
  BY <1>1, RingFrom DEF TypeOK
<1>4. n = 0 => logged = <<>>
  <2>1. Held = 0 => Len(logged) = 0
    BY <1>3, NType DEF RingInv
  <2> QED BY <1>2, <1>3, <2>1
<1>6. Closed(logged)
  BY ShownIsClosed
<1>7. ASSUME logged # <<>>, Last(logged) \notin {"\n", "\t", "m"}
      PROVE  BeforeCursor(term) \in Cell /\ term.screen[BeforeCursor(term)][1] = Last(logged)
  <2>1. n \in 1..Len(logged)
    BY <1>1, <1>3, <1>4, <1>7
  <2>2. Last(logged) = logged[Len(logged)]
    BY DEF Last
  <2>3. LET u == Drawing(term_init, LastOf(logged, n))[n]
        IN  BeforeCursor(u) \in Cell /\ u.screen[BeforeCursor(u)][1] = logged[Len(logged)]
    BY <1>3, <1>6, <1>7, <2>1, <2>2, LastShows
  <2> QED BY <1>2, <2>2, <2>3 DEF BeforeCursor, Newest
<1> QED BY <1>1, <1>2, <1>4, <1>7 DEF Rendered

(* On a machine with no more than two cpus and a screen of more than one   *)
(* line, whatever is logged in closed texts: a frame shows the newest      *)
(* characters of the log as if they were all there ever was, and its last  *)
(* character, although the ring drops characters in the middle of lines and*)
(* of escape sequences and the parser keeps its state from frame to frame. *)
THEOREM FramesAreTails == AtMostTwo /\ term_height > 1 => (Spec => []FrameIsTail)
<1> SUFFICES ASSUME AtMostTwo, term_height > 1 PROVE Spec => []FrameIsTail
  OBVIOUS
<1>1. DrawInv /\ TypeOK /\ [Next]_consoleVars => DrawInv'
  BY DrawStep
<1>2. TypeOK /\ RingInv /\ DrawInv /\ TextInv /\ FrameInv /\ [Next]_consoleVars
      => TextInv' /\ FrameInv'
  BY FrameStep
<1>3. TypeOK /\ RingInv /\ DrawInv /\ TextInv /\ FrameInv => FrameIsTail
  BY FrameInvImplies
<1> QED BY <1>1, <1>2, <1>3, InitDraws, InitTexts, InitFrame, RingAlways, PTL DEF Spec
=============================================================================
