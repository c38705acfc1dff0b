------------------------------ MODULE Console -------------------------------
(***************************************************************************)
(* The console (kern/dev/generic/console.c) on a serial port (lser.c).     *)
(* Threads put characters with P(cs_wsem) and get them with P(cs_rsem);    *)
(* the interrupt handler, which runs on the boot CPU only, gives both      *)
(* semaphores back.  Code that must not sleep prints by polling.  What is  *)
(* done under ls_lock is one step.  The semaphores are atomic (module      *)
(* Semaphore), and the menu does not read while a program does.            *)
(***************************************************************************)
EXTENDS Naturals, FiniteSets, SequencesExt

CONSTANTS
    Reader,         \* programs that read from con:
    Writer,         \* programs that write Message to con:
    Printer,        \* kernel threads that print Message, without the user lock
    Message,        \* a sequence of characters; "nl" is a newline
    BufferSize,     \* CONSOLE_INPUT_BUFFER_SIZE
    MaxTyped,       \* bound: characters that are typed
    MaxResid,       \* bound: the most a program asks for
    MaxPolled,      \* bound: characters printed by polling
    NULL

Thread == Writer \cup Printer

VARIABLES
    cs_gotchars, cs_gotchars_head, cs_gotchars_tail,
    cs_rsem, cs_wsem,
    con_userlock_read, con_userlock_write,
    ls_wbusy,
    sending,    \* the port is sending a character (external)
    wirq,       \* its register LSER_REG_WIRQ: a set of "enable", "active", "force"
    received,   \* the character it has received: LSER_REG_RIRQ is active; or 0
    irq,        \* where lser_irq is, and the character it has read
    pc,
    resid,      \* what a program has left to read
    out,        \* the characters a thread has left to put
    polled,     \* how many were printed by polling
    typed,      \* how many were typed; the characters are 1, 2, ...
    queue,      \* those con_input has accepted and con_io has not handed out
    line,       \* the last message of a program on the wire, so far
    con_status  \* not "ok": a panic, or a character lost in the port

inputs == <<cs_gotchars, cs_gotchars_head, cs_gotchars_tail, cs_rsem, con_userlock_read,
            received, resid, typed, queue>>
port == <<ls_wbusy, sending, wirq, line, con_status>>
outputs == <<cs_wsem, con_userlock_write, port, out, polled>>
vars == <<inputs, outputs, irq, pc>>

(* con_io sends a carriage return before each newline. *)
Crlf(m) == FlattenSeq([k \in DOMAIN m |-> IF m[k] = "nl" THEN <<"cr", "nl">> ELSE <<m[k]>>])

(* config_con and config_lser.  There may be nothing to print, and fewer   *)
(* than MaxTyped characters to come.                                       *)
Init ==
    /\ cs_gotchars = [k \in 0 .. BufferSize - 1 |-> 0]
    /\ cs_gotchars_head = 0 /\ cs_gotchars_tail = 0
    /\ cs_rsem = 0 /\ cs_wsem = 1
    /\ con_userlock_read = NULL /\ con_userlock_write = NULL
    /\ ls_wbusy = FALSE /\ sending = FALSE /\ wirq = {"enable"} /\ received = 0
    /\ irq = [ph |-> "none", ch |-> 0]
    /\ \E where \in {"user", "done"} :
         pc = [t \in Reader \cup Thread |-> IF t \in Thread THEN where ELSE "user"]
    /\ resid = [t \in Reader |-> 0]
    /\ out = [t \in Thread |-> IF t \in Writer THEN Crlf(Message) ELSE Message]
    /\ polled = 0 /\ typed \in 0 .. MaxTyped
    /\ queue = <<>> /\ line = <<>>
    /\ con_status = "ok"

At(t, where) == con_status = "ok" /\ pc[t] = where
Goto(t, where) == pc' = [pc EXCEPT ![t] = where]
-----------------------------------------------------------------------------
(* The port (external): it finishes a character, or receives one.          *)
sent ==
    /\ con_status = "ok" /\ sending
    /\ sending' = FALSE /\ wirq' = wirq \cup {"active"}
    /\ UNCHANGED <<inputs, cs_wsem, con_userlock_write, ls_wbusy, line, con_status,
                   out, polled, irq, pc>>

receive ==
    /\ con_status = "ok" /\ received = 0 /\ typed < MaxTyped
    /\ typed' = typed + 1 /\ received' = typed + 1
    /\ UNCHANGED <<cs_gotchars, cs_gotchars_head, cs_gotchars_tail, cs_rsem,
                   con_userlock_read, resid, queue, outputs, irq, pc>>

Interrupts == received # 0 \/ ("enable" \in wirq /\ wirq \cap {"active", "force"} # {})

(* lser_irq, under ls_lock: it answers both conditions, and goes on to     *)
(* call con_start and con_input.                                           *)
lser_irq ==
    LET clear_to_write == "active" \in wirq
    IN /\ con_status = "ok" /\ irq.ph = "none" /\ Interrupts
       /\ wirq' = IF clear_to_write THEN {"enable"} ELSE wirq
       /\ ls_wbusy' = (ls_wbusy /\ ~clear_to_write)
       /\ received' = 0
       /\ irq' = [ph |-> IF clear_to_write THEN "con_start" ELSE "con_input", ch |-> received]
       /\ UNCHANGED <<cs_gotchars, cs_gotchars_head, cs_gotchars_tail, cs_rsem,
                      con_userlock_read, resid, typed, queue, cs_wsem,
                      con_userlock_write, sending, line, con_status, out, polled, pc>>

InputNext == [irq EXCEPT !.ph = IF irq.ch = 0 THEN "none" ELSE "con_input"]

con_start ==
    /\ con_status = "ok" /\ irq.ph = "con_start"
    /\ cs_wsem' = cs_wsem + 1
    /\ irq' = InputNext
    /\ UNCHANGED <<inputs, con_userlock_write, port, out, polled, pc>>

(* The head may catch up with the tail. *)
con_input_over ==
    /\ con_status = "ok" /\ irq.ph = "con_input"
    /\ cs_gotchars' = [cs_gotchars EXCEPT ![cs_gotchars_head] = irq.ch]
    /\ cs_gotchars_head' = (cs_gotchars_head + 1) % BufferSize
    /\ queue' = Append(queue, irq.ch)
    /\ irq' = [ph |-> "V", ch |-> 0]
    /\ UNCHANGED <<cs_gotchars_tail, cs_rsem, con_userlock_read, received, resid,
                   typed, outputs, pc>>

(* con_input drops the character when the buffer is full. *)
con_input ==
    LET nexthead == (cs_gotchars_head + 1) % BufferSize
    IN /\ con_status = "ok" /\ irq.ph = "con_input"
       /\ IF nexthead = cs_gotchars_tail
            THEN /\ irq' = [ph |-> "none", ch |-> 0]
                 /\ UNCHANGED <<cs_gotchars, cs_gotchars_head, queue>>
            ELSE /\ cs_gotchars' = [cs_gotchars EXCEPT ![cs_gotchars_head] = irq.ch]
                 /\ cs_gotchars_head' = nexthead
                 /\ queue' = Append(queue, irq.ch)
                 /\ irq' = [ph |-> "V", ch |-> 0]
       /\ UNCHANGED <<cs_gotchars_tail, cs_rsem, con_userlock_read, received, resid,
                      typed, outputs, pc>>

con_input_V ==
    /\ con_status = "ok" /\ irq.ph = "V"
    /\ cs_rsem' = cs_rsem + 1
    /\ irq' = [ph |-> "none", ch |-> 0]
    /\ UNCHANGED <<cs_gotchars, cs_gotchars_head, cs_gotchars_tail, con_userlock_read,
                   received, resid, typed, queue, outputs, pc>>
-----------------------------------------------------------------------------
(* con_io for reading n characters. *)
con_io_read(t, n) ==
    /\ At(t, "user") /\ con_userlock_read = NULL
    /\ con_userlock_read' = t
    /\ resid' = [resid EXCEPT ![t] = n]
    /\ Goto(t, "getch")
    /\ UNCHANGED <<cs_gotchars, cs_gotchars_head, cs_gotchars_tail, cs_rsem, received,
                   typed, queue, outputs, irq>>

getch_P(t) ==
    /\ At(t, "getch") /\ cs_rsem > 0
    /\ cs_rsem' = cs_rsem - 1
    /\ Goto(t, "gotchars")
    /\ UNCHANGED <<cs_gotchars, cs_gotchars_head, cs_gotchars_tail, con_userlock_read,
                   received, resid, typed, queue, outputs, irq>>

(* The rest of getch_intr, and of the turn of the loop: the call ends      *)
(* after a newline, which any character may be, and when uiomove fails.    *)
getch_intr(t) ==
    /\ At(t, "gotchars")
    /\ queue' = Tail(queue)
    /\ cs_gotchars_tail' = (cs_gotchars_tail + 1) % BufferSize
    /\ \/ /\ resid[t] > 1
          /\ resid' = [resid EXCEPT ![t] = @ - 1]
          /\ Goto(t, "getch") /\ UNCHANGED con_userlock_read
       \/ /\ resid' = [resid EXCEPT ![t] = 0]
          /\ Goto(t, "user") /\ con_userlock_read' = NULL
    /\ UNCHANGED <<cs_gotchars, cs_gotchars_head, cs_rsem, received, typed, outputs, irq>>
-----------------------------------------------------------------------------
(* Programs write without the lock. *)
con_io_write_unlocked(t) ==
    /\ At(t, "user")
    /\ Goto(t, "putch")
    /\ UNCHANGED <<inputs, cs_wsem, con_userlock_write, port, out, polled, irq>>

(* con_io for writing Message, by a program. *)
con_io_write(t) ==
    /\ At(t, "user") /\ con_userlock_write = NULL
    /\ con_userlock_write' = t
    /\ Goto(t, "putch")
    /\ UNCHANGED <<inputs, cs_wsem, port, out, polled, irq>>

kprintf(t) == At(t, "user") /\ Goto(t, "putch") /\ UNCHANGED <<inputs, outputs, irq>>

putch_P(t) ==
    /\ At(t, "putch") /\ cs_wsem > 0
    /\ cs_wsem' = cs_wsem - 1
    /\ Goto(t, "cs_send")
    /\ UNCHANGED <<inputs, con_userlock_write, port, out, polled, irq>>

(* The line on the wire after t puts ch. *)
LineWith(t, ch) ==
    IF t \notin Writer THEN line
    ELSE IF Len(line) = Len(Crlf(Message)) THEN <<<<t, ch>>>>
    ELSE Append(line, <<t, ch>>)

(* lser_write, and the turn of the loop in con_io.  Writing LSER_REG_CHAR  *)
(* while the port sends would lose a character.                            *)
lser_write(t) ==
    /\ At(t, "cs_send")
    /\ IF ls_wbusy
         THEN /\ con_status' = "Not clear to write"
              /\ UNCHANGED <<ls_wbusy, sending, line, out, pc, con_userlock_write>>
         ELSE /\ line' = LineWith(t, Head(out[t]))
              /\ con_status' = IF sending THEN "overrun" ELSE con_status
              /\ ls_wbusy' = TRUE /\ sending' = TRUE
              /\ out' = [out EXCEPT ![t] = Tail(@)]
              /\ Goto(t, IF Len(out[t]) = 1 THEN "done" ELSE "putch")
              /\ con_userlock_write' =
                   IF Len(out[t]) = 1 /\ t \in Writer THEN NULL ELSE con_userlock_write
    /\ UNCHANGED <<inputs, cs_wsem, wirq, polled, irq>>

(* uiomove fails for the next character, after any before it were sent:    *)
(* the call ends.  The two characters of a newline come of one uiomove.    *)
con_io_fails(t) ==
    /\ At(t, "putch") /\ Head(out[t]) # "nl"
    /\ out' = [out EXCEPT ![t] = <<>>] /\ line' = <<>>
    /\ Goto(t, "done") /\ con_userlock_write' = NULL
    /\ UNCHANGED <<inputs, cs_wsem, ls_wbusy, sending, wirq, con_status, polled, irq>>

(* lser_writepolled, in an interrupt handler or with interrupts off.  It   *)
(* spins until the port is done with the character before, and then with   *)
(* its own.                                                                *)
lser_writepolled ==
    /\ con_status = "ok" /\ polled < MaxPolled
    /\ ls_wbusy => sending \/ "active" \in wirq
    /\ polled' = polled + 1
    /\ con_status' = IF sending /\ ~ls_wbusy THEN "overrun" ELSE con_status
    /\ sending' = FALSE
    /\ wirq' = IF ls_wbusy THEN {"enable", "force", "active"} ELSE {"enable"}
    /\ UNCHANGED <<inputs, cs_wsem, con_userlock_write, ls_wbusy, line, out, irq, pc>>

Interrupt == lser_irq \/ con_start \/ con_input \/ con_input_V
Prints(t) ==
    \/ t \in Writer /\ (con_io_write(t) \/ con_io_fails(t))
    \/ t \in Printer /\ kprintf(t)
    \/ putch_P(t) \/ lser_write(t)

Next ==
    \/ sent \/ receive
    \/ Interrupt
    \/ \E t \in Reader :
         (\E n \in 1 .. MaxResid : con_io_read(t, n)) \/ getch_P(t) \/ getch_intr(t)
    \/ \E t \in Thread : Prints(t)
    \/ lser_writepolled

(* The port answers, interrupts are taken, and threads that can run do. *)
Fairness == WF_vars(sent) /\ WF_vars(Interrupt) /\ \A t \in Thread : WF_vars(Prints(t))

Spec == Init /\ [][Next]_vars /\ Fairness
-----------------------------------------------------------------------------
Buffered ==
    [k \in 1 .. (cs_gotchars_head + BufferSize - cs_gotchars_tail) % BufferSize |->
        cs_gotchars[(cs_gotchars_tail + k - 1) % BufferSize]]

(* Characters reach the programs in the order in which they were typed,    *)
(* once each, although con_input and getch_intr share the ring without a   *)
(* lock; none is lost once con_input has taken it; and cs_rsem counts what *)
(* is in the ring.                                                         *)
InputExact ==
    /\ Buffered = queue
    /\ Len(queue) = cs_rsem + Cardinality({t \in Reader : pc[t] = "gotchars"})
                            + IF irq.ph = "V" THEN 1 ELSE 0

(* The port is never given a character before it is done with the last     *)
(* (lser_write panics: "Not clear to write"), however printing by polling  *)
(* falls between a character, its interrupt and V(cs_wsem).  And what one  *)
(* program writes is not mixed with what another does: on the wire the     *)
(* characters of programs form whole messages, or beginnings of those that *)
(* uiomove cut short.                                                      *)
OutputExact ==
    /\ con_status = "ok"
    /\ \A k \in DOMAIN line : line[k] = <<line[1][1], Crlf(Message)[k]>>

(* Every call that prints returns: no wake-up of con_start is lost to a    *)
(* character printed by polling.                                           *)
PrintingEnds == <>(\A t \in Thread : pc[t] = "done")
=============================================================================
