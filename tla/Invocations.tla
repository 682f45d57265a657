----------------------------- MODULE Invocations ------------------------------
(***************************************************************************)
(* The invocations of the kernel as the words the tool writes              *)
(* (tool/microkit/sel4.py, Sel4Invocation and its classes) and the monitor *)
(* reads (monitor/src/main.c, perform_invocation).                         *)
(*                                                                         *)
(* A word is a number in its low bits and the set of its other bits that   *)
(* are set; nothing the tool adds up reaches the other bits.               *)
(***************************************************************************)
EXTENDS Naturals, SequencesExt, TLC

LowBits == 20

Word(n) == [low |-> n, high |-> {}]
Bit(b) == IF b < LowBits THEN Word(2 ^ b) ELSE [low |-> 0, high |-> {b}]

\* For words that have no bit in common.
Or(v, w) == [low |-> v.low + w.low, high |-> v.high \cup w.high]

BitsOf(w) == {b \in 0 .. LowBits - 1 : (w.low \div 2 ^ b) % 2 = 1} \cup w.high
FromBits(bits) == FoldSet(LAMBDA b, w : Or(Bit(b), w), Word(0), bits)

\* The capabilities the kernel gives the monitor, and the address of a slot of the
\* system CNode, system_cap_address_mask | slot.
INIT_NULL == Word(0)
INIT_TCB == Word(1)
INIT_CNODE == Word(2)
INIT_VSPACE == Word(3)
IRQ_CONTROL == Word(4)
INIT_ASID_POOL == Word(6)
At(slot) == Or(Bit(63), Word(slot))

READ == 1
WRITE == 0
RIGHTS_ALL == FromBits(0..3)
PAGE_CACHEABLE == 0
PARITY_ENABLED == 1
EXECUTE_NEVER == 2
DEFAULT_VMATTRIBUTES == FromBits({PAGE_CACHEABLE, PARITY_ENABLED})

-----------------------------------------------------------------------------
(* The classes: the label of the method, the fields that are passed as     *)
(* capabilities, and all fields in order.  The first one is the object the *)
(* method is invoked on.                                                   *)

Method(label, extra_caps, fields) ==
  [label |-> label, extra_caps |-> extra_caps, fields |-> fields]

UntypedMethods ==
  [UntypedRetype |-> Method(1, {"root"},
     <<"untyped", "object_type", "size_bits", "root", "node_index", "node_depth",
       "node_offset", "num_objects">>)]

\* Sel4Aarch64Regs.as_tuple; a register that is not given is 0.
Registers ==
  <<"pc", "sp", "spsr", "x0", "x1", "x2", "x3", "x4", "x5", "x6", "x7", "x8", "x16", "x17",
    "x18", "x29", "x30", "x9", "x10", "x11", "x12", "x13", "x14", "x15", "x19", "x20", "x21",
    "x22", "x23", "x24", "x25", "x26", "x27", "x28", "tpidr_el0", "tpidrro_el0">>

TcbMethods ==
  [SetSchedParams |-> Method(8, {"authority", "sched_context", "fault_ep"},
     <<"tcb", "authority", "mcp", "priority", "sched_context", "fault_ep">>),
   SetSpace |-> Method(11, {"fault_ep", "cspace_root", "vspace_root"},
     <<"tcb", "fault_ep", "cspace_root", "cspace_root_data", "vspace_root", "vspace_root_data">>),
   SetIPCBuffer |-> Method(10, {"buffer_frame"}, <<"tcb", "buffer", "buffer_frame">>),
   Resume |-> Method(13, {}, <<"tcb">>),
   WriteRegisters |-> Method(3, {}, <<"tcb", "resume", "count">> \o Registers),
   BindNotification |-> Method(14, {"notification"}, <<"tcb", "notification">>)]

AsidAndIrqMethods ==
  [AsidPoolAssign |-> Method(54, {"vspace"}, <<"asid_pool", "vspace">>),
   IrqControlGet |-> Method(25, {"dest_root"},
     <<"irq_control", "irq", "dest_root", "dest_index", "dest_depth">>),
   SetNotification |-> Method(27, {"notification"}, <<"irq_handler", "notification">>)]

PagingMethods ==
  [PageUpperDirectoryMap |-> Method(40, {"vspace"},
     <<"page_upper_directory", "vspace", "vaddr", "attr">>),
   PageDirectoryMap |-> Method(42, {"vspace"}, <<"page_directory", "vspace", "vaddr", "attr">>),
   PageTableMap |-> Method(44, {"vspace"}, <<"page_table", "vspace", "vaddr", "attr">>),
   PageMap |-> Method(46, {"vspace"}, <<"page", "vspace", "vaddr", "rights", "attr">>)]

CNodeMethods ==
  [Mint |-> Method(21, {"src_root"},
     <<"cnode", "dest_index", "dest_depth", "src_root", "src_obj", "src_depth", "rights", "badge">>)]

SchedControlMethods ==
  [ConfigureFlags |-> Method(30, {"schedcontext"},
     <<"schedcontrol", "schedcontext", "budget", "period", "extra_refills", "badge", "flags">>)]

Methods == UntypedMethods @@ TcbMethods @@ AsidAndIrqMethods @@ PagingMethods @@ CNodeMethods
             @@ SchedControlMethods

CapFields(op) ==
  SelectSeq(Tail(Methods[op].fields), LAMBDA f : f \in Methods[op].extra_caps)
ValueFields(op) ==
  SelectSeq(Tail(Methods[op].fields), LAMBDA f : f \notin Methods[op].extra_caps)

-----------------------------------------------------------------------------
(* The tool *)

Invoke(op, args) == [op |-> op, args |-> args, count |-> 1, incr |-> <<>>]

\* repeat() does nothing for a single repetition.
Repeat(inv, count, incr) ==
  IF count > 1 THEN [inv EXCEPT !.count = count, !.incr = incr] ELSE inv

Tag(op, count) ==
  [low |-> Methods[op].label * 2 ^ 12 + Len(CapFields(op)) * 2 ^ 7 + Len(ValueFields(op)),
   high |-> {32 + b : b \in BitsOf(Word(count - 1))}]

\* Mutant: the increments are in the order of the fields, the capabilities not first.
EncodedFieldOrder(inv) ==
  LET order == <<Methods[inv.op].fields[1]>> \o CapFields(inv.op) \o ValueFields(inv.op)
      fields == Methods[inv.op].fields
      argument(f) == IF f \in DOMAIN inv.args THEN inv.args[f] ELSE Word(0)
      increment(f) == IF f \in DOMAIN inv.incr THEN Word(inv.incr[f]) ELSE Word(0)
  IN <<Tag(inv.op, inv.count)>> \o [n \in DOMAIN order |-> argument(order[n])]
       \o (IF inv.count > 1 THEN [n \in DOMAIN fields |-> increment(fields[n])] ELSE <<>>)

\* _get_raw_invocation: the tag, the object, the capabilities and the values,
\* then for a repeated invocation the increment of each of them.
Encoded(inv) ==
  LET order == <<Methods[inv.op].fields[1]>> \o CapFields(inv.op) \o ValueFields(inv.op)
      argument(f) == IF f \in DOMAIN inv.args THEN inv.args[f] ELSE Word(0)
      increment(f) == IF f \in DOMAIN inv.incr THEN Word(inv.incr[f]) ELSE Word(0)
  IN <<Tag(inv.op, inv.count)>> \o [n \in DOMAIN order |-> argument(order[n])]
       \o (IF inv.count > 1 THEN [n \in DOMAIN order |-> increment(order[n])] ELSE <<>>)

RawData(invocations) == FlattenSeq([n \in DOMAIN invocations |-> Encoded(invocations[n])])

-----------------------------------------------------------------------------
(* The monitor.  Offsets count from 1. *)

Iterations(cmd) == FoldSet(LAMBDA b, n : n + 2 ^ (b - 32), 1, cmd.high)

\* seL4_MessageInfo_get_extraCaps and seL4_MessageInfo_get_length.
CapCount(cmd) == (cmd.low \div 2 ^ 7) % 4
MrCount(cmd) == cmd.low % 2 ^ 7

NextOffset(data, offset) ==
  LET size == 1 + CapCount(data[offset]) + MrCount(data[offset])
  IN offset + 1 + IF Iterations(data[offset]) > 1 THEN 2 * size ELSE size

Incremented(data, at, incr, i) ==
  IF i = 0 THEN data[at] ELSE [data[at] EXCEPT !.low = @ + data[incr].low * i]

\* What the i-th iteration sends: the object, the capabilities and the message
\* registers, of which the kernel makes the arguments of the method.
Call(data, offset, i) ==
  LET cmd == data[offset]
      size == 1 + CapCount(cmd) + MrCount(cmd)
      word(n) == Incremented(data, offset + n, offset + n + size, i)
      op == CHOOSE o \in DOMAIN Methods : Methods[o].label = cmd.low \div 2 ^ 12
      caps == CapFields(op)
      values == ValueFields(op)
  IN [op |-> op,
      args |->
        [f \in Range(Methods[op].fields) |->
           IF f = Methods[op].fields[1] THEN word(1)
           ELSE IF f \in Methods[op].extra_caps THEN word(1 + SelectInSeq(caps, LAMBDA g : g = f))
           ELSE word(1 + CapCount(cmd) + SelectInSeq(values, LAMBDA g : g = f))]]

-----------------------------------------------------------------------------
\* The i-th repetition of an invocation, as repeat() means it.
Repetition(inv, i) ==
  [op |-> inv.op,
   args |->
     [f \in Range(Methods[inv.op].fields) |->
        LET argument == IF f \in DOMAIN inv.args THEN inv.args[f] ELSE Word(0)
            increment == IF f \in DOMAIN inv.incr THEN inv.incr[f] ELSE 0
        IN [argument EXCEPT !.low = @ + i * increment]]]
=============================================================================
