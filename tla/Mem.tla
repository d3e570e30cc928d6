---------------------------------- MODULE Mem ----------------------------------
(***************************************************************************)
(* The memory functions of the C library (libc/string): memmove, memcpy,   *)
(* memset, memcmp and strlen, a byte at a time, on a memory whose ranges   *)
(* may overlap where the function allows it.  The kernel moves its tables  *)
(* of blocks and threads and the screen with memmove.                      *)
(***************************************************************************)
EXTENDS Integers

CONSTANTS
  MemSize,   \* bytes of memory: bounds the runs
  UCHAR_MAX  \* 255

ASSUME MemAssumption == MemSize \in Nat /\ UCHAR_MAX \in Nat \ {0}

Addr == 0..(MemSize - 1)
Byte == 0..UCHAR_MAX

VARIABLES
  mem,  \* the memory
  old,  \* the memory as the call found it
  call, \* the function and its arguments; dst is also s1 of memcmp
  i,    \* the loop counter
  ret   \* the result of memcmp

memVars == <<mem, old, call, i, ret>>

NoCall == [fn |-> "none", dst |-> 0, src |-> 0, size |-> 0, value |-> 0]

\* Between calls the kernel writes what it likes: a call comes with its memory.
Untouched == [k \in Addr |-> 0]

MemInit == /\ mem = Untouched /\ old = Untouched
           /\ call = NoCall /\ i = 0 /\ ret = 0

\* Mutant: the copy starts at the end that the destination covers first.
AlwaysUpward(c) == TRUE

\* memmove copies upwards if (dst < src); memcpy always does.
Upward(c) == c.fn = "memcpy" \/ c.dst < c.src

\* What a caller may pass: memcpy's ranges are restrict, a string ends.  An
\* argument a function does not have is 0.
Allowed(c, m) ==
  /\ c.dst + c.size <= MemSize /\ c.src + c.size <= MemSize
  /\ c.fn = "memcpy" => c.dst + c.size <= c.src \/ c.src + c.size <= c.dst
  /\ c.fn = "strlen" => \E k \in Addr : k >= c.src /\ m[k] = 0
  /\ c.fn # "memset" => c.value = 0
  /\ c.fn = "memset" => c.src = 0
  /\ c.fn = "strlen" => c.dst = 0 /\ c.size = 0

MemCall(c, m) ==
  /\ Allowed(c, m)
  /\ call' = c /\ mem' = m /\ old' = m
  /\ i' = IF c.fn = "memmove" /\ ~Upward(c) THEN c.size ELSE 0
  /\ UNCHANGED ret

\* dst[i] = src[i]
CopyUp ==
  /\ call.fn \in {"memmove", "memcpy"} /\ Upward(call) /\ i < call.size
  /\ mem' = [mem EXCEPT ![call.dst + i] = mem[call.src + i]] /\ i' = i + 1
  /\ UNCHANGED <<old, call, ret>>

\* dst[i-1] = src[i-1]
CopyDown ==
  /\ call.fn = "memmove" /\ ~Upward(call) /\ i # 0
  /\ mem' = [mem EXCEPT ![call.dst + i - 1] = mem[call.src + i - 1]]
  /\ i' = i - 1
  /\ UNCHANGED <<old, call, ret>>

\* buf[i] = (unsigned char) value
SetByte ==
  /\ call.fn = "memset" /\ i < call.size
  /\ mem' = [mem EXCEPT ![call.dst + i] = call.value % (UCHAR_MAX + 1)]
  /\ i' = i + 1
  /\ UNCHANGED <<old, call, ret>>

Order(a, b) == IF a < b THEN -1 ELSE IF b < a THEN 1 ELSE 0

CompareByte ==
  /\ call.fn = "memcmp" /\ i < call.size /\ ret = 0
  /\ ret' = Order(mem[call.dst + i], mem[call.src + i])
  /\ i' = i + 1
  /\ UNCHANGED <<mem, old, call>>

CountByte ==
  /\ call.fn = "strlen" /\ mem[call.src + i] # 0
  /\ i' = i + 1
  /\ UNCHANGED <<mem, old, call, ret>>

Finished ==
  CASE call.fn = "none" -> FALSE
    [] call.fn \in {"memmove", "memcpy"} -> i = IF Upward(call) THEN call.size ELSE 0
    [] call.fn = "memset" -> i = call.size
    [] call.fn = "memcmp" -> ret # 0 \/ i = call.size
    [] call.fn = "strlen" -> mem[call.src + i] = 0

MemReturn ==
  /\ Finished
  /\ mem' = Untouched /\ old' = Untouched
  /\ call' = NoCall /\ i' = 0 /\ ret' = 0

MemStep ==
  CopyUp \/ CopyDown \/ SetByte \/ CompareByte \/ CountByte \/ MemReturn

\* Two values of memset: 0 and one that is wider than a byte.
Calls == [fn : {"memmove", "memcpy", "memset", "memcmp", "strlen"},
          dst : 0..MemSize, src : 0..MemSize, size : 0..MemSize,
          value : {0, UCHAR_MAX + 2}]

MemNext ==
  \/ MemStep
  \/ call.fn = "none" /\ \E c \in Calls, m \in [Addr -> Byte] : MemCall(c, m)

MemSpec == MemInit /\ [][MemNext]_memVars

------------------------------------------------------------------------------
(* Properties                                                              *)

MemTypeOK == /\ mem \in [Addr -> Byte] /\ old \in [Addr -> Byte]
             /\ call \in Calls \cup {NoCall} /\ i \in 0..MemSize
             /\ ret \in {-1, 0, 1}

\* What the call stands for, done at once.
Wanted ==
  [k \in Addr |->
     IF k \notin call.dst..(call.dst + call.size - 1) THEN old[k]
     ELSE CASE call.fn \in {"memmove", "memcpy"} -> old[k - call.dst + call.src]
            [] call.fn = "memset" -> call.value % (UCHAR_MAX + 1)
            [] OTHER -> old[k]]

\* memmove copies ranges that overlap as if through a second memory, and no
\* function touches a byte outside its destination.
CopiedAsIfAtOnce == Finished => mem = Wanted

\* memcmp has the sign of the first difference; strlen stops at the first 0.
FirstDifference ==
  /\ (Finished /\ call.fn = "memcmp") =>
       LET a(k) == old[call.dst + k]
           b(k) == old[call.src + k]
           differ == {k \in 0..(call.size - 1) : a(k) # b(k)}
       IN IF differ = {} THEN ret = 0
          ELSE \E k \in differ : /\ \A l \in differ : k <= l
                                 /\ ret = IF a(k) < b(k) THEN -1 ELSE 1
  /\ (Finished /\ call.fn = "strlen") =>
       /\ old[call.src + i] = 0 /\ \A k \in 0..(i - 1) : old[call.src + k] # 0

\* When a call returns it has done what it is defined to do at once.
AsDefined == CopiedAsIfAtOnce /\ FirstDifference
==============================================================================
