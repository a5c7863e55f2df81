------------------------------- MODULE Console -------------------------------
(***************************************************************************)
(* The kernel log (lib/klog.c), the task that shows it (klogdisplayd), and *)
(* kernel_panic (sys/panic.c), on several cpus.                            *)
(*                                                                         *)
(* A log call is its text; formatting is left out.  A cpu runs klogdisplayd*)
(* or other tasks; the timer interrupt moves klogdisplayd about, and after *)
(* a panic it halts the cpu it comes to.  Whoever waits for or holds       *)
(* log_lock has interrupts off.  Tasks panic where they hold no lock of    *)
(* the console: a fault inside of klog.c is left out.                      *)
(***************************************************************************)
EXTENDS Null, Terminal, FiniteSets, SequencesExt

CONSTANTS CPU,
          KLOG_BUFF_LEN,
          Texts,        \* what tasks log
          PanicTexts,   \* the texts kernel_panic logs, in order
          LogMax,       \* bound: calls of tasks
          Panickers     \* cpus that may panic

ASSUME ConsoleAssumption ==
    /\ KLOG_BUFF_LEN \in Nat \ {0, 1}
    /\ NULL \notin CPU
    /\ Texts \subseteq Seq(STRING)
    /\ PanicTexts \in Seq(Seq(STRING)) \ {<<>>}

NUL == ""

\* The terminal t and what it becomes with each character of s drawn on it.
Drawing(t, s) ==
    LET after[k \in 0..Len(s)] == IF k = 0 THEN t ELSE term_putchar(after[k-1], s[k])
    IN  after

LastOf(s, n) == SubSeq(s, Len(s)-n+1, Len(s))

Mode(t) == [state |-> t.state, cparams |-> t.cparams, fgcolor |-> t.fgcolor, bgcolor |-> t.bgcolor]

\* However much of its beginning is lost, a text ends outside of any escape
\* sequence and in the default colours; and it does not end by clearing the
\* screen.
Closed(text) ==
    /\ \A n \in 0..Len(text) : Mode(Drawing(term_init, LastOf(text, n))[n]) = Mode(term_init)
    /\ Len(text) > 1 => LastOf(text, 2) # <<ESC, "c">>

PanicText == FlattenSeq(PanicTexts)

\* A panic's texts may leave colours to each other.
ASSUME TextsAssumption == \A text \in Texts \cup {PanicText} : Closed(text)

VARIABLES
    log_buff, log_start, log_end,
    log_lock,   \* the cpu that holds it, or NULL
    panic_lock,
    timer,      \* the handler of the apic timer: "switch" or "halt"
    term,       \* the terminal and back buffer, shared by all cpus
    front,      \* what the framebuffer shows
    cpu,        \* cpu -> [job, at, text, i, used, visible, left]
    saved,      \* klogdisplayd: where it is while no cpu runs it, or NULL
    logged,     \* history: every character that was logged
    calls       \* log calls that tasks made

log == <<log_buff, log_start, log_end, logged>>
consoleVars == <<log, log_lock, panic_lock, timer, term, front, cpu, saved, calls>>

Init ==
    /\ log_buff = [k \in 0..KLOG_BUFF_LEN-1 |-> NUL]
    /\ log_start = 0
    /\ log_end = 0
    /\ log_lock = NULL
    /\ panic_lock = NULL
    /\ timer = "switch"
    /\ term = term_init
    /\ front = term_init.screen
    /\ cpu = [c \in CPU |-> [job |-> "task", at |-> "idle", text |-> <<>>, i |-> 0,
                             used |-> 0, visible |-> 0, left |-> <<>>]]
    /\ saved = "clear"
    /\ logged = <<>>
    /\ calls = 0

At(c, job, step) == cpu[c].job = job /\ cpu[c].at = step
Go(c, step) == cpu' = [cpu EXCEPT ![c].at = step]

\* The 16-bit indices wrap.
Plus(k, n) == (k + n) % KLOG_BUFF_LEN
Minus(k, n) == (k + KLOG_BUFF_LEN - n) % KLOG_BUFF_LEN

\* pit_wait has passed: a timer interrupt is pending at every other cpu.
Stopping == \E c \in CPU : cpu[c].job = "panic" /\ cpu[c].at \notin {"enter", "set", "pit"}

-----------------------------------------------------------------------------
(* A log call: lock_wait, its characters one by one, lock_release.         *)

Call(c) ==
    /\ At(c, "task", "idle")
    /\ ~Stopping
    /\ calls < LogMax
    /\ calls' = calls + 1
    /\ \E text \in Texts :
          cpu' = [cpu EXCEPT ![c].at = "wait", ![c].text = text]
    /\ UNCHANGED <<log, log_lock, panic_lock, timer, term, front, saved>>

\* Mutant: lock_wait leaves interrupts on.
Masked_Not(c) == cpu[c].job = "panic"

\* Interrupts are off at cpu c.
Masked(c) == cpu[c].job = "panic" \/ cpu[c].at \in {"wait", "put", "scan", "print"}

lock_wait(c, there) ==
    /\ log_lock = NULL
    /\ log_lock' = c
    /\ Go(c, there)

\* A pending interrupt comes as soon as lock_release restores the flags.
Released(c, there) == Go(c, IF cpu[c].job # "panic" /\ Stopping THEN "halted" ELSE there)

LockLog(c) ==
    /\ cpu[c].at = "wait"
    /\ lock_wait(c, IF cpu[c].job = "display" THEN "scan" ELSE "put")
    /\ UNCHANGED <<log, panic_lock, timer, term, front, saved, calls>>

\* Mutant: a full ring is written on into.
Start_Stays == log_start

\* log_start, which makes way for the end.
Start == IF Plus(log_end, 1) = log_start THEN Plus(log_start, 1) ELSE log_start

putch(c) ==
    /\ cpu[c].at = "put"
    /\ cpu[c].text # <<>>
    /\ log_buff' = [log_buff EXCEPT ![log_end] = Head(cpu[c].text)]
    /\ log_end' = Plus(log_end, 1)
    /\ log_start' = Start
    /\ logged' = Append(logged, Head(cpu[c].text))
    /\ cpu' = [cpu EXCEPT ![c].text = Tail(@)]
    /\ UNCHANGED <<log_lock, panic_lock, timer, term, front, saved, calls>>

\* Mutant: the lock is kept.
Logged_Locked(c) ==
    /\ cpu[c].at = "put"
    /\ cpu[c].text = <<>>
    /\ Released(c, IF cpu[c].job = "panic" THEN "next" ELSE "idle")
    /\ UNCHANGED <<log, log_lock, panic_lock, timer, term, front, saved, calls>>

Logged(c) ==
    /\ cpu[c].at = "put"
    /\ cpu[c].text = <<>>
    /\ log_lock' = NULL
    /\ Released(c, IF cpu[c].job = "panic" THEN "next" ELSE "idle")
    /\ UNCHANGED <<log, panic_lock, timer, term, front, saved, calls>>

klog(c) == Call(c) \/ LockLog(c) \/ putch(c) \/ Logged(c)

-----------------------------------------------------------------------------
(* klogdisplayd, and klog_show_now where the job is "panic": term_clear,   *)
(* klog_show_helper, term_flush.                                           *)

TermClear(c) ==
    /\ cpu[c].at = "clear"
    /\ term' = term_clear(term)
    /\ cpu' = [cpu EXCEPT ![c].at = IF cpu[c].job = "panic" THEN "scan" ELSE "wait",
                          ![c].used = 0, ![c].visible = 0]
    /\ UNCHANGED <<log, log_lock, panic_lock, timer, front, saved, calls>>

Lines(used) == term_width * ((used + term_width - 1) \div term_width)

\* Backwards from log_end, whose place holds what the ring dropped last.
Scan(c) ==
    LET i == IF cpu[c].visible = 0 THEN log_end ELSE cpu[c].i
    IN
    /\ cpu[c].at = "scan"
    /\ IF i # log_start /\ cpu[c].used < term_width * term_height
       THEN cpu' = [cpu EXCEPT
                ![c].used = CASE log_buff[i] = "\n" -> Lines(@)
                              [] log_buff[i] = NUL  -> @
                              [] OTHER              -> @ + 1,
                ![c].visible = @ + 1,
                ![c].i = Minus(i, 1)]
       ELSE cpu' = [cpu EXCEPT ![c].at = "print", ![c].i = Minus(log_end, cpu[c].visible)]
    /\ UNCHANGED <<log, log_lock, panic_lock, timer, term, front, saved, calls>>

PrintNext(c) ==
    /\ cpu[c].at = "print"
    /\ cpu[c].i # log_end
    /\ term' = term_putchar(term, log_buff[cpu[c].i])
    /\ cpu' = [cpu EXCEPT ![c].i = Plus(@, 1)]
    /\ UNCHANGED <<log, log_lock, panic_lock, timer, front, saved, calls>>

Printed(c) ==
    /\ cpu[c].at = "print"
    /\ cpu[c].i = log_end
    /\ IF cpu[c].job = "panic" THEN UNCHANGED log_lock ELSE log_lock' = NULL
    /\ Released(c, "flush")
    /\ UNCHANGED <<log, panic_lock, timer, term, front, saved, calls>>

\* klogdisplayd sleeps for the rest of the frame, if there is one.
fb_swap_buffers(c) ==
    /\ cpu[c].at = "flush"
    /\ front' = term.screen
    /\ Go(c, IF cpu[c].job = "panic" THEN "dead" ELSE "clear")
    /\ UNCHANGED <<log, log_lock, panic_lock, timer, term, saved, calls>>

klog_show(c) == TermClear(c) \/ Scan(c) \/ PrintNext(c) \/ Printed(c) \/ fb_swap_buffers(c)

-----------------------------------------------------------------------------
(* The timer interrupt, and kernel_panic.                                  *)

Halted(c) == cpu[c].at = "halted"

Preempt(c) ==
    /\ timer = "switch"
    /\ cpu[c].job = "display"
    /\ ~Masked(c)
    /\ saved' = cpu[c].at
    /\ cpu' = [cpu EXCEPT ![c].job = "task", ![c].at = "idle"]
    /\ UNCHANGED <<log, log_lock, panic_lock, timer, term, front, calls>>

Resume(c) ==
    /\ timer = "switch"
    /\ At(c, "task", "idle")
    /\ saved # NULL
    /\ saved' = NULL
    /\ cpu' = [cpu EXCEPT ![c].job = "display", ![c].at = saved]
    /\ UNCHANGED <<log, log_lock, panic_lock, timer, term, front, calls>>

halt(c) ==
    /\ timer = "halt"
    /\ ~Masked(c)
    /\ ~Halted(c)
    /\ Go(c, "halted")
    /\ UNCHANGED <<log, log_lock, panic_lock, timer, term, front, saved, calls>>

EnterPanic(c) ==
    /\ c \in Panickers
    /\ ~Masked(c)
    /\ ~Halted(c)
    /\ cpu' = [cpu EXCEPT ![c].job = "panic", ![c].at = "enter", ![c].left = PanicTexts]
    /\ UNCHANGED <<log, log_lock, panic_lock, timer, term, front, saved, calls>>

LockPanic(c) ==
    /\ At(c, "panic", "enter")
    /\ panic_lock = NULL
    /\ panic_lock' = c
    /\ Go(c, "set")
    /\ UNCHANGED <<log, log_lock, timer, term, front, saved, calls>>

apic_timer_set_handler(c) ==
    /\ At(c, "panic", "set")
    /\ timer' = "halt"
    /\ Go(c, "pit")
    /\ UNCHANGED <<log, log_lock, panic_lock, term, front, saved, calls>>

\* Mutant: the other cpus are not waited for.
Quiet_Assumed(d) == TRUE

\* What 10 ms are enough for: a cpu with interrupts on is halted, its slice
\* being 2 ms, and one that can have log_lock has it.
Quiet(d) == \/ Halted(d)
            \/ At(d, "panic", "enter")
            \/ log_lock = d
            \/ cpu[d].at = "wait" /\ log_lock # NULL

pit_wait(c) ==
    /\ At(c, "panic", "pit")
    /\ \A d \in CPU \ {c} : Quiet(d)
    /\ Go(c, "next")
    /\ UNCHANGED <<log, log_lock, panic_lock, timer, term, front, saved, calls>>

NextText(c) ==
    /\ At(c, "panic", "next")
    /\ cpu' = IF cpu[c].left = <<>> THEN [cpu EXCEPT ![c].at = "clear"]
              ELSE [cpu EXCEPT ![c].at = "wait", ![c].text = Head(cpu[c].left),
                               ![c].left = Tail(@)]
    /\ UNCHANGED <<log, log_lock, panic_lock, timer, term, front, saved, calls>>

kernel_panic(c) == \/ EnterPanic(c)
                   \/ LockPanic(c)
                   \/ apic_timer_set_handler(c)
                   \/ pit_wait(c)
                   \/ NextText(c)

TimerInterrupt(c) == Preempt(c) \/ Resume(c) \/ halt(c)

Next == \E c \in CPU : klog(c) \/ klog_show(c) \/ TimerInterrupt(c) \/ kernel_panic(c)

\* Cpus execute (WF).  Whoever has begun a log call, a frame or a panic goes
\* on with it; nobody must begin one.  klogdisplayd is scheduled over and
\* over, for long enough to do something (SF).  An interrupt that is pending
\* comes when interrupts are on, however shortly (SF).
Working(c) == \/ LockLog(c) \/ putch(c) \/ Logged(c) \/ Scan(c) \/ PrintNext(c) \/ Printed(c)
              \/ cpu[c].job = "panic" /\ (klog_show(c) \/ kernel_panic(c))
DisplayStep == \E c \in CPU : cpu[c].job = "display" /\ (klog_show(c) \/ LockLog(c))

Fairness == /\ \A c \in CPU : WF_consoleVars(Working(c)) /\ SF_consoleVars(halt(c))
            /\ SF_consoleVars(\E c \in CPU : Resume(c))
            /\ SF_consoleVars(DisplayStep)

Spec == Init /\ [][Next]_consoleVars /\ Fairness

-----------------------------------------------------------------------------
Newest(n) == LastOf(logged, n)

(* From log_start to log_end the ring holds the newest characters that     *)
(* were logged, as many as fit and in their order, whoever logged them.    *)
RingHoldsTail ==
    LET n == Minus(log_end, log_start)
    IN  /\ n = IF Len(logged) < KLOG_BUFF_LEN THEN Len(logged) ELSE KLOG_BUFF_LEN-1
        /\ [k \in 1..n |-> log_buff[Plus(log_start, k-1)]] = Newest(n)

(* With two cpus nobody draws while another does, though klog_show_now     *)
(* takes no lock: the terminal has none of its own.                        *)
Draws(c) == cpu[c].at \in {"clear", "scan", "print", "flush"}
DrawsAlone == \A c, d \in CPU : Draws(c) /\ Draws(d) => c = d

\* An empty screen with the log's last n characters drawn on it.
Rendered(n) == Drawing(term_init, Newest(n))[n].screen

\* The cell before the cursor of t, in reading order.
BeforeCursor(t) == IF t.cursor_x > 0 THEN <<t.cursor_y, t.cursor_x-1>>
                   ELSE <<t.cursor_y-1, term_width-1>>

(* A frame shows the newest characters of the log as if they were all      *)
(* there ever was: nothing of the frame before it, no character that the   *)
(* ring has dropped, no colour or half a sequence left over from another;  *)
(* and the last one is on the screen, if it is a character one can see.    *)
FrameIsTail ==
    \A c \in CPU :
        cpu[c].at = "print" /\ cpu[c].i = log_end =>
            /\ term.screen = Rendered(cpu[c].visible)
            /\ cpu[c].visible = 0 => logged = <<>>
            /\ logged # <<>> /\ Last(logged) \notin {"\n", "\t", "m"} =>
                  BeforeCursor(term) \in Cell /\ term.screen[BeforeCursor(term)][1] = Last(logged)

(* A cpu that panics, or another that did so before it, has its whole text *)
(* logged in one piece and shown on the screen in the end, and nothing is  *)
(* shown or logged after it.                                               *)
Reported(c) == /\ At(c, "panic", "dead")
               /\ IsSuffix(PanicText, logged)
               /\ cpu[c].visible >= Len(PanicText)
               /\ front = Rendered(cpu[c].visible)
PanicShown == (\E c \in CPU : cpu[c].job = "panic") ~> [](\E c \in CPU : Reported(c))

(* Unless a cpu panics, what is logged is shown in the end.                *)
LogShown == <>[](\/ \E c \in CPU : cpu[c].job = "panic"
                 \/ \E n \in 1..Len(logged) : front = Rendered(n)
                 \/ logged = <<>>)
=============================================================================
