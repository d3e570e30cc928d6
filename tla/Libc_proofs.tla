------------------------------ MODULE Libc_proofs ------------------------------
(***************************************************************************)
(* Theorems about the C library: its memory functions, for a memory of any *)
(* size and bytes of any width, and printf, for integers and buffers of    *)
(* any width, and formats and arguments of any length.                     *)
(***************************************************************************)
EXTENDS Libc, SequenceTheorems, FiniteSetTheorems, WellFoundedInduction, TLAPS

------------------------------------------------------------------------------
(***************************************************************************)
(* The memory functions.                                                   *)
(***************************************************************************)

(* The inductive invariant: what each loop has done after i of its bytes.  *)

\* The byte k as a copy that has covered the bytes at a..b leaves it.
Copied(k, a, b) == IF k \in a..b THEN old[k - call.dst + call.src] ELSE old[k]

UpInv ==
  (call.fn \in {"memmove", "memcpy"} /\ Upward(call)) =>
    /\ i <= call.size
    /\ \A k \in Addr : mem[k] = Copied(k, call.dst, call.dst + i - 1)

DownInv ==
  (call.fn \in {"memmove", "memcpy"} /\ ~Upward(call)) =>
    /\ i <= call.size
    /\ \A k \in Addr : mem[k] = Copied(k, call.dst + i, call.dst + call.size - 1)

SetInv ==
  call.fn = "memset" =>
    /\ i <= call.size
    /\ \A k \in Addr : mem[k] = IF k \in call.dst..(call.dst + i - 1)
                                THEN call.value % (UCHAR_MAX + 1) ELSE old[k]

\* The bytes before i, or before the last of them once it differs, are equal.
CompareInv ==
  call.fn = "memcmp" =>
    /\ mem = old /\ i <= call.size
    /\ ret = 0 => \A l \in 0..(i - 1) : old[call.dst + l] = old[call.src + l]
    /\ ret # 0 => /\ i > 0
                  /\ \A l \in 0..(i - 2) : old[call.dst + l] = old[call.src + l]
                  /\ old[call.dst + i - 1] # old[call.src + i - 1]
                  /\ ret = Order(old[call.dst + i - 1], old[call.src + i - 1])

\* The end of the string is still ahead.
CountInv ==
  call.fn = "strlen" =>
    /\ mem = old
    /\ \A k \in 0..(i - 1) : old[call.src + k] # 0
    /\ \E k \in Addr : k >= call.src + i /\ old[k] = 0

\* The result of a call is given up when it returns.
IdleResult == call.fn = "none" => ret = 0

MemInv ==
  /\ MemTypeOK /\ IdleResult
  /\ call.fn # "none" => Allowed(call, old)
  /\ UpInv /\ DownInv /\ SetInv /\ CompareInv /\ CountInv

------------------------------------------------------------------------------
(* Lemmas                                                                  *)

\* A call's arguments are addresses and sizes of the memory.
LEMMA CallTypes ==
  ASSUME MemTypeOK
  PROVE  /\ MemSize \in Nat /\ UCHAR_MAX \in Nat \ {0}
         /\ call.dst \in Nat /\ call.src \in Nat /\ call.size \in Nat
         /\ call.value \in Nat /\ i \in Nat
         /\ call.fn \in {"none", "memmove", "memcpy", "memset", "memcmp", "strlen"}
  BY MemAssumption DEF MemTypeOK, Calls, NoCall

\* A call that is allowed stays inside the memory.
LEMMA InMemory ==
  ASSUME MemInv, call.fn # "none", NEW k \in 0..(call.size - 1)
  PROVE  call.dst + k \in Addr /\ call.src + k \in Addr
  BY CallTypes DEF MemInv, Allowed, Addr

\* Nothing runs in the initial state.
LEMMA MemInitInv == MemInit => MemInv
<1> SUFFICES ASSUME MemInit PROVE MemInv
  OBVIOUS
<1>1. MemTypeOK
  BY MemAssumption DEF MemInit, MemTypeOK, Untouched, Byte
<1>2. call.fn = "none"
  BY DEF MemInit, NoCall
<1> QED
  BY <1>1, <1>2 DEF MemInit, MemInv, IdleResult, UpInv, DownInv, SetInv, CompareInv, CountInv

------------------------------------------------------------------------------
(* One lemma per step                                                      *)

\* A call starts with nothing done.
LEMMA CallStep ==
  ASSUME MemInv, NEW c \in Calls, NEW m \in [Addr -> Byte], MemCall(c, m),
         call.fn = "none"
  PROVE  MemInv'
<1>1. /\ MemSize \in Nat /\ c.dst \in Nat /\ c.src \in Nat /\ c.size \in Nat
      /\ c.size <= MemSize
  BY MemAssumption DEF Calls
<1>2. call' = c /\ mem' = m /\ old' = m /\ ret' = ret /\ Allowed(c, m)
  BY DEF MemCall
<1>3. i' \in 0..MemSize /\ i' <= c.size
  BY <1>1 DEF MemCall
<1>4. MemTypeOK'
  BY <1>2, <1>3 DEF MemInv, MemTypeOK
<1>5. UpInv'
  <2> SUFFICES ASSUME c.fn \in {"memmove", "memcpy"}, Upward(c) PROVE UpInv'
    BY <1>2 DEF UpInv, Upward
  <2>1. i' = 0
    BY DEF MemCall, Upward
  <2>2. \A k \in Addr : k \notin c.dst..(c.dst + i' - 1)
    BY <1>1, <2>1 DEF Addr
  <2> QED
    BY <1>1, <1>2, <1>3, <2>1, <2>2 DEF UpInv, Copied
<1>6. DownInv'
  <2> SUFFICES ASSUME c.fn \in {"memmove", "memcpy"}, ~Upward(c) PROVE DownInv'
    BY <1>2 DEF DownInv, Upward
  <2>1. i' = c.size
    BY DEF MemCall, Upward
  <2>2. \A k \in Addr : k \notin (c.dst + i')..(c.dst + c.size - 1)
    BY <1>1, <2>1 DEF Addr
  <2> QED
    BY <1>1, <1>2, <1>3, <2>1, <2>2 DEF DownInv, Copied
<1>7. SetInv'
  <2> SUFFICES ASSUME c.fn = "memset" PROVE SetInv'
    BY <1>2 DEF SetInv
  <2>1. i' = 0
    BY DEF MemCall
  <2>2. \A k \in Addr : k \notin c.dst..(c.dst + i' - 1)
    BY <1>1, <2>1 DEF Addr
  <2> QED
    BY <1>1, <1>2, <2>1, <2>2 DEF SetInv
<1>8. CompareInv'
  <2> SUFFICES ASSUME c.fn = "memcmp" PROVE CompareInv'
    BY <1>2 DEF CompareInv
  <2>1. i' = 0
    BY DEF MemCall
  <2>2. ret' = 0
    BY <1>2 DEF MemInv, IdleResult
  <2> QED
    BY <1>1, <1>2, <2>1, <2>2 DEF CompareInv
<1>9. CountInv'
  <2> SUFFICES ASSUME c.fn = "strlen" PROVE CountInv'
    BY <1>2 DEF CountInv
  <2>1. i' = 0
    BY DEF MemCall
  <2>2. \E k \in Addr : k >= c.src /\ m[k] = 0
    BY <1>2 DEF Allowed
  <2> QED
    BY <1>1, <1>2, <2>1, <2>2 DEF CountInv
<1>10. IdleResult'
  BY <1>2 DEF Calls, IdleResult
<1> QED
  BY <1>2, <1>4, <1>5, <1>6, <1>7, <1>8, <1>9, <1>10 DEF MemInv

\* dst[i] = src[i], upwards: the byte read has not been written yet.
LEMMA CopyUpStep ==
  ASSUME MemInv, CopyUp
  PROVE  MemInv'
<1>1. /\ call.fn \in {"memmove", "memcpy"} /\ Upward(call) /\ i < call.size
      /\ mem' = [mem EXCEPT ![call.dst + i] = mem[call.src + i]] /\ i' = i + 1
      /\ old' = old /\ call' = call /\ ret' = ret
  BY DEF CopyUp
<1>2. /\ MemSize \in Nat /\ call.dst \in Nat /\ call.src \in Nat
      /\ call.size \in Nat /\ i \in Nat
  BY CallTypes DEF MemInv
<1>3. call.dst + i \in Addr /\ call.src + i \in Addr
  BY <1>1, <1>2, InMemory
<1>4. mem \in [Addr -> Byte] /\ Allowed(call, old)
  BY <1>1 DEF MemInv, MemTypeOK
<1>5. mem[call.src + i] = old[call.src + i]
  <2>1. call.src + i \notin call.dst..(call.dst + i - 1)
    BY <1>1, <1>2, <1>4 DEF Upward, Allowed
  <2> QED
    BY <1>1, <1>3, <2>1 DEF MemInv, UpInv, Copied
<1>6. i + 1 <= MemSize
  BY <1>1, <1>2, <1>4 DEF Allowed
<1>7. MemTypeOK'
  BY <1>1, <1>2, <1>3, <1>4, <1>6 DEF MemInv, MemTypeOK
<1>8. UpInv'
  <2>1. ASSUME NEW k \in Addr
        PROVE  mem'[k] = Copied(k, call.dst, call.dst + i)
    <3>1. CASE k = call.dst + i
      BY <1>1, <1>2, <1>4, <1>5, <3>1 DEF Copied
    <3>2. CASE k # call.dst + i
      <4>1. mem'[k] = mem[k]
        BY <1>1, <1>4, <3>2
      <4>2. k \in call.dst..(call.dst + i) <=> k \in call.dst..(call.dst + i - 1)
        BY <1>2, <3>2 DEF Addr
      <4> QED
        BY <1>1, <4>1, <4>2 DEF MemInv, UpInv, Copied
    <3> QED
      BY <3>1, <3>2
  <2>2. call.dst + i' - 1 = call.dst + i
    BY <1>1, <1>2
  <2> QED
    BY <1>1, <1>2, <2>1, <2>2 DEF UpInv, Copied
<1> QED
  BY <1>1, <1>7, <1>8
     DEF MemInv, IdleResult, DownInv, SetInv, CompareInv, CountInv, Upward

\* dst[i-1] = src[i-1], downwards.
LEMMA CopyDownStep ==
  ASSUME MemInv, CopyDown
  PROVE  MemInv'
<1>1. /\ call.fn = "memmove" /\ ~Upward(call) /\ i # 0
      /\ mem' = [mem EXCEPT ![call.dst + i - 1] = mem[call.src + i - 1]]
      /\ i' = i - 1 /\ old' = old /\ call' = call /\ ret' = ret
  BY DEF CopyDown
<1>2. /\ MemSize \in Nat /\ call.dst \in Nat /\ call.src \in Nat
      /\ call.size \in Nat /\ i \in Nat /\ i <= call.size
  BY <1>1, CallTypes DEF MemInv, DownInv
<1>3. call.dst + i - 1 \in Addr /\ call.src + i - 1 \in Addr
  <2>1. i - 1 \in 0..(call.size - 1)
    BY <1>1, <1>2
  <2>2. call.dst + (i - 1) \in Addr /\ call.src + (i - 1) \in Addr
    BY <1>1, <2>1, InMemory
  <2> QED
    BY <1>2, <2>2
<1>4. mem \in [Addr -> Byte] /\ Allowed(call, old)
  BY <1>1 DEF MemInv, MemTypeOK
<1>5. mem[call.src + i - 1] = old[call.src + i - 1]
  <2>1. call.src + i - 1 \notin (call.dst + i)..(call.dst + call.size - 1)
    BY <1>1, <1>2 DEF Upward
  <2> QED
    BY <1>1, <1>3, <2>1 DEF MemInv, DownInv, Copied
<1>6. MemTypeOK'
  BY <1>1, <1>2, <1>3, <1>4 DEF MemInv, MemTypeOK
<1>7. DownInv'
  <2>1. ASSUME NEW k \in Addr
        PROVE  mem'[k] = Copied(k, call.dst + i - 1, call.dst + call.size - 1)
    <3>1. CASE k = call.dst + i - 1
      <4>1. k - call.dst + call.src = call.src + i - 1
        BY <1>2, <3>1
      <4>2. k \in (call.dst + i - 1)..(call.dst + call.size - 1)
        BY <1>2, <3>1
      <4> QED
        BY <1>1, <1>4, <1>5, <3>1, <4>1, <4>2 DEF Copied
    <3>2. CASE k # call.dst + i - 1
      <4>1. mem'[k] = mem[k]
        BY <1>1, <1>4, <3>2
      <4>2. k \in (call.dst + i - 1)..(call.dst + call.size - 1)
              <=> k \in (call.dst + i)..(call.dst + call.size - 1)
        BY <1>2, <3>2 DEF Addr
      <4> QED
        BY <1>1, <4>1, <4>2 DEF MemInv, DownInv, Copied
    <3> QED
      BY <3>1, <3>2
  <2>2. call.dst + i' = call.dst + i - 1
    BY <1>1, <1>2
  <2> QED
    BY <1>1, <1>2, <2>1, <2>2 DEF DownInv, Copied
<1> QED
  BY <1>1, <1>6, <1>7
     DEF MemInv, IdleResult, UpInv, SetInv, CompareInv, CountInv, Upward

\* buf[i] = (unsigned char) value.
LEMMA SetByteStep ==
  ASSUME MemInv, SetByte
  PROVE  MemInv'
<1>1. /\ call.fn = "memset" /\ i < call.size
      /\ mem' = [mem EXCEPT ![call.dst + i] = call.value % (UCHAR_MAX + 1)]
      /\ i' = i + 1 /\ old' = old /\ call' = call /\ ret' = ret
  BY DEF SetByte
<1>2. /\ MemSize \in Nat /\ call.dst \in Nat /\ call.size \in Nat /\ i \in Nat
      /\ call.value \in Nat /\ UCHAR_MAX \in Nat
  BY CallTypes DEF MemInv
<1>3. call.dst + i \in Addr
  BY <1>1, <1>2, InMemory
<1>4. mem \in [Addr -> Byte] /\ Allowed(call, old)
  BY <1>1 DEF MemInv, MemTypeOK
<1>5. call.value % (UCHAR_MAX + 1) \in Byte
  BY <1>2 DEF Byte
<1>6. i + 1 <= MemSize
  BY <1>1, <1>2, <1>4 DEF Allowed
<1>7. MemTypeOK'
  BY <1>1, <1>2, <1>3, <1>4, <1>5, <1>6 DEF MemInv, MemTypeOK
<1>8. SetInv'
  <2>1. ASSUME NEW k \in Addr
        PROVE  mem'[k] = IF k \in call.dst..(call.dst + i)
                         THEN call.value % (UCHAR_MAX + 1) ELSE old[k]
    <3>1. CASE k = call.dst + i
      BY <1>1, <1>2, <1>4, <3>1
    <3>2. CASE k # call.dst + i
      <4>1. mem'[k] = mem[k]
        BY <1>1, <1>4, <3>2
      <4>2. k \in call.dst..(call.dst + i) <=> k \in call.dst..(call.dst + i - 1)
        BY <1>2, <3>2 DEF Addr
      <4> QED
        BY <1>1, <4>1, <4>2 DEF MemInv, SetInv
    <3> QED
      BY <3>1, <3>2
  <2>2. call.dst + i' - 1 = call.dst + i
    BY <1>1, <1>2
  <2> QED
    BY <1>1, <1>2, <2>1, <2>2 DEF SetInv
<1> QED
  BY <1>1, <1>7, <1>8
     DEF MemInv, IdleResult, UpInv, DownInv, CompareInv, CountInv

\* memcmp looks at the next bytes as long as none have differed.
LEMMA CompareByteStep ==
  ASSUME MemInv, CompareByte
  PROVE  MemInv'
<1>1. /\ call.fn = "memcmp" /\ i < call.size /\ ret = 0
      /\ ret' = Order(mem[call.dst + i], mem[call.src + i])
      /\ i' = i + 1 /\ old' = old /\ call' = call /\ mem' = mem
  BY DEF CompareByte
<1>2. /\ MemSize \in Nat /\ call.dst \in Nat /\ call.size \in Nat /\ i \in Nat
      /\ call.src \in Nat
  BY CallTypes DEF MemInv
<1>3. /\ mem = old /\ Allowed(call, old)
      /\ \A l \in 0..(i - 1) : old[call.dst + l] = old[call.src + l]
  BY <1>1 DEF MemInv, CompareInv
<1>4. old[call.dst + i] \in Byte /\ old[call.src + i] \in Byte
  BY <1>1, <1>2, <1>3, InMemory DEF MemInv, MemTypeOK
<1>5. /\ ret' \in {-1, 0, 1}
      /\ ret' = 0 <=> old[call.dst + i] = old[call.src + i]
  BY <1>1, <1>3, <1>4, CallTypes DEF Order, Byte, MemInv
<1>6. MemTypeOK'
  BY <1>1, <1>2, <1>3, <1>5 DEF MemInv, MemTypeOK, Allowed
<1>7. i' - 1 = i /\ i' - 2 = i - 1
  BY <1>1, <1>2
<1>8. CompareInv'
  <2>1. ret' = 0 => \A l \in 0..i : old[call.dst + l] = old[call.src + l]
    BY <1>2, <1>3, <1>5
  <2>2. ret' # 0 => /\ i' > 0
                    /\ old[call.dst + i' - 1] # old[call.src + i' - 1]
                    /\ ret' = Order(old[call.dst + i' - 1], old[call.src + i' - 1])
    <3>1. call.dst + i' - 1 = call.dst + i /\ call.src + i' - 1 = call.src + i
      BY <1>1, <1>2
    <3>2. i' > 0
      BY <1>1, <1>2
    <3> QED
      BY <1>1, <1>3, <1>5, <3>1, <3>2
  <2>3. i' <= call.size
    BY <1>1, <1>2
  <2> QED
    BY <1>1, <1>3, <1>7, <2>1, <2>2, <2>3 DEF CompareInv
<1> QED
  BY <1>1, <1>6, <1>8
     DEF MemInv, IdleResult, UpInv, DownInv, SetInv, CountInv

\* strlen goes on over a byte that is not 0: the end is further on.
LEMMA CountByteStep ==
  ASSUME MemInv, CountByte
  PROVE  MemInv'
<1>1. /\ call.fn = "strlen" /\ mem[call.src + i] # 0
      /\ i' = i + 1 /\ old' = old /\ call' = call /\ mem' = mem /\ ret' = ret
  BY DEF CountByte
<1>2. MemSize \in Nat /\ i \in Nat /\ call.src \in Nat
  BY CallTypes DEF MemInv
<1>3. /\ mem = old
      /\ \A k \in 0..(i - 1) : old[call.src + k] # 0
      /\ \E k \in Addr : k >= call.src + i /\ old[k] = 0
  BY <1>1 DEF MemInv, CountInv
<1>4. PICK k \in Addr : k >= call.src + i /\ old[k] = 0
  BY <1>3
<1>5. k >= call.src + i' /\ k < MemSize
  <2>1. k # call.src + i
    BY <1>1, <1>3, <1>4
  <2> QED
    BY <1>1, <1>2, <1>4, <2>1 DEF Addr
<1>6. i' \in 0..MemSize
  BY <1>1, <1>2, <1>5 DEF Addr
<1>7. MemTypeOK'
  BY <1>1, <1>6 DEF MemInv, MemTypeOK
<1>8. \A l \in 0..(i' - 1) : old[call.src + l] # 0
  BY <1>1, <1>2, <1>3
<1>9. CountInv'
  BY <1>1, <1>3, <1>4, <1>5, <1>8 DEF CountInv
<1> QED
  BY <1>1, <1>7, <1>9
     DEF MemInv, IdleResult, UpInv, DownInv, SetInv, CompareInv

\* A call returns.
LEMMA ReturnStep ==
  ASSUME MemReturn
  PROVE  MemInv'
<1>1. /\ mem' = Untouched /\ old' = Untouched /\ call' = NoCall
      /\ i' = 0 /\ ret' = 0
  BY DEF MemReturn
<1>2. MemTypeOK'
  BY <1>1, MemAssumption DEF MemTypeOK, Untouched, Byte
<1> QED
  BY <1>1, <1>2
     DEF NoCall, MemInv, IdleResult, UpInv, DownInv, SetInv, CompareInv, CountInv

------------------------------------------------------------------------------
(* The theorems                                                            *)

\* The inductive invariant holds in every state.
THEOREM MemInductive == MemSpec => []MemInv
<1>1. MemInv /\ [MemNext]_memVars => MemInv'
  <2> SUFFICES ASSUME MemInv, [MemNext]_memVars PROVE MemInv'
    OBVIOUS
  <2>1. CASE MemStep
    BY <2>1, CopyUpStep, CopyDownStep, SetByteStep, CompareByteStep,
       CountByteStep, ReturnStep DEF MemStep
  <2>2. ASSUME NEW c \in Calls, NEW m \in [Addr -> Byte], MemCall(c, m),
               call.fn = "none"
        PROVE  MemInv'
    BY <2>2, CallStep
  <2>3. CASE UNCHANGED memVars
    BY <2>3 DEF memVars, MemInv, MemTypeOK, IdleResult, Allowed, UpInv, DownInv,
                SetInv, CompareInv, CountInv, Copied, Upward
  <2> QED
    BY <2>1, <2>2, <2>3 DEF MemNext
<1> QED
  BY MemInitInv, <1>1, PTL DEF MemSpec

\* The counter stays within the memory and the result a sign.
THEOREM MemTypes == MemSpec => []MemTypeOK
<1>1. MemInv => MemTypeOK
  BY DEF MemInv
<1> QED
  BY MemInductive, <1>1, PTL

\* memmove, memcpy and memset do what they would at once, and touch no other
\* byte, whatever the overlap.
LEMMA Copies ==
  ASSUME MemInv
  PROVE  CopiedAsIfAtOnce
<1> SUFFICES ASSUME MemInv, Finished PROVE mem = Wanted
  BY DEF CopiedAsIfAtOnce
<1>1. mem \in [Addr -> Byte] /\ old \in [Addr -> Byte]
  BY DEF MemInv, MemTypeOK
<1>2. ASSUME NEW k \in Addr PROVE mem[k] = Wanted[k]
  <2>1. call.dst \in Nat /\ call.size \in Nat
    BY CallTypes DEF MemInv
  <2>2. CASE call.fn \in {"memmove", "memcpy"} /\ Upward(call)
    BY <2>1, <2>2 DEF MemInv, UpInv, Copied, Finished, Wanted
  <2>3. CASE call.fn \in {"memmove", "memcpy"} /\ ~Upward(call)
    <3>1. i = 0 /\ call.dst + i = call.dst
      <4>1. call.fn # "none" /\ call.fn # "memset" /\ call.fn # "memcmp"
            /\ call.fn # "strlen"
        BY <2>3
      <4>2. i = IF Upward(call) THEN call.size ELSE 0
        BY <2>3, <4>1, Zenon DEF Finished
      <4>3. i = 0
        BY <2>3, <4>2
      <4> QED
        BY <2>1, <4>3
    <3>2. mem[k] = Copied(k, call.dst, call.dst + call.size - 1)
      BY <2>3, <3>1 DEF MemInv, DownInv
    <3> QED
      BY <2>3, <3>2 DEF Copied, Wanted
  <2>4. CASE call.fn = "memset"
    BY <2>1, <2>4 DEF MemInv, SetInv, Finished, Wanted
  <2>5. CASE call.fn \in {"memcmp", "strlen"}
    BY <2>5 DEF MemInv, CompareInv, CountInv, Wanted
  <2>6. CASE call.fn = "none"
    BY <2>6 DEF Finished
  <2> QED
    BY <2>2, <2>3, <2>4, <2>5, <2>6, CallTypes DEF MemInv
<1>3. Wanted = [k \in Addr |-> Wanted[k]]
  BY DEF Wanted
<1> QED
  BY <1>1, <1>2, <1>3

\* memcmp answers for the first bytes that differ, and strlen stops at the
\* first 0.
LEMMA Differences ==
  ASSUME MemInv
  PROVE  FirstDifference
<1> SUFFICES ASSUME MemInv, Finished PROVE FirstDifference
  BY DEF FirstDifference
<1>1. call.size \in Nat /\ i \in Nat /\ call.dst \in Nat /\ call.src \in Nat
  BY CallTypes DEF MemInv
<1>2. CASE call.fn = "memcmp"
  <2> DEFINE a(k) == old[call.dst + k]
             b(k) == old[call.src + k]
             differ == {k \in 0..(call.size - 1) : a(k) # b(k)}
  <2> SUFFICES IF differ = {} THEN ret = 0
               ELSE \E k \in differ : /\ \A l \in differ : k <= l
                                      /\ ret = IF a(k) < b(k) THEN -1 ELSE 1
    BY <1>2 DEF FirstDifference
  <2>1. CASE ret = 0
    <3>1. i = call.size
      BY <1>2, <2>1 DEF Finished
    <3>2. differ = {}
      BY <1>2, <2>1, <3>1 DEF MemInv, CompareInv
    <3> QED
      BY <2>1, <3>2
  <2>2. CASE ret # 0
    <3>1. /\ i > 0 /\ i <= call.size
          /\ \A l \in 0..(i - 2) : a(l) = b(l)
          /\ old[call.dst + i - 1] # old[call.src + i - 1]
          /\ ret = Order(old[call.dst + i - 1], old[call.src + i - 1])
      BY <1>2, <2>2 DEF MemInv, CompareInv
    <3>2. /\ call.dst + (i - 1) = call.dst + i - 1
          /\ call.src + (i - 1) = call.src + i - 1
      BY <1>1
    <3>3. i - 1 \in differ
      BY <1>1, <3>1, <3>2
    <3>4. \A l \in differ : i - 1 <= l
      BY <1>1, <3>1
    <3>5. ret = IF a(i - 1) < b(i - 1) THEN -1 ELSE 1
      BY <2>2, <3>1, <3>2 DEF Order
    <3> HIDE DEF differ
    <3> QED
      BY <3>3, <3>4, <3>5
  <2> QED
    BY <2>1, <2>2
<1>3. CASE call.fn = "strlen"
  BY <1>3 DEF MemInv, CountInv, Finished, FirstDifference
<1> QED
  BY <1>2, <1>3 DEF FirstDifference

\* What the calls write, and what they answer, is as defined, in every memory.
THEOREM MemAsDefined == MemSpec => []AsDefined
<1>1. MemInv => AsDefined
  BY Copies, Differences DEF AsDefined
<1> QED
  BY MemInductive, <1>1, PTL

\* The library runs its memory functions as they are specified on their own.
LEMMA LibcRunsMem == Spec => MemSpec
<1>1. Init => MemInit BY DEF Init
<1>2. [Next]_vars => [MemNext]_memVars BY DEF Next, vars
<1> QED BY <1>1, <1>2, PTL DEF Spec, MemSpec

\* What the calls write, and what they answer, is as defined, also among calls
\* of printf.
THEOREM AlwaysAsDefined == Spec => []AsDefined
<1> QED BY LibcRunsMem, MemAsDefined, PTL

------------------------------------------------------------------------------
(***************************************************************************)
(* printf.                                                                 *)
(***************************************************************************)

\* A set of naturals that is not empty has a least element.
LEMMA Least ==
  ASSUME NEW T, T \subseteq Nat, T # {}
  PROVE  \E x \in T : \A y \in T : x <= y
<1> DEFINE U == {0..x : x \in T}
           R == StrictSubsetOrdering(Nat)
<1>1. U # {} /\ U \subseteq FiniteSubsetsOf(Nat)
  <2>1. \A x \in T : IsFiniteSet(0..x) /\ 0..x \subseteq Nat BY FS_Interval
  <2> QED BY <2>1 DEF FiniteSubsetsOf
<1>2. \E u \in U : \A w \in U : ~ (<<w, u>> \in R)
  <2>1. IsWellFoundedOn(R, FiniteSubsetsOf(Nat)) BY FS_StrictSubsetOrderingWellFounded
  <2> HIDE DEF U, R
  <2> QED BY <1>1, <2>1, WFMin
<1>3. PICK x \in T : \A y \in T : ~ (<<0..y, 0..x>> \in R) BY <1>2
<1>4. SUFFICES ASSUME NEW y \in T, y < x PROVE FALSE BY <1>3
<1>5. 0..y \subseteq 0..x /\ 0..y # 0..x BY <1>4
<1>6. <<0..y, 0..x>> \in R BY <1>5 DEF StrictSubsetOrdering
<1> QED BY <1>3, <1>6

------------------------------------------------------------------------------
(***************************************************************************)
(* Numerals.                                                               *)

LEMMA Bounds ==
  /\ INT_MAX \in Nat /\ UINT_MAX \in Nat /\ UINT_MAX = 2 * INT_MAX + 1
  /\ IntSize \in Nat /\ UintSize \in Nat /\ HexSize \in Nat
<1>1. {INT_MAX, IntSize, UintSize, HexSize} \subseteq Nat BY PrintfAssumption
<1> QED BY <1>1 DEF UINT_MAX

\* Division by a base.
LEMMA DivIs ==
  ASSUME NEW b \in {10, 16}, NEW m \in Nat
  PROVE  /\ m \div b \in Nat /\ m % b \in Nat /\ m % b < b
         /\ m < b => m \div b = 0 /\ m % b = m
         /\ m >= b => 1 <= m \div b /\ m \div b < m
         /\ \A k \in Nat : k <= m => k \div b <= m \div b
<1>1. CASE b = 10 BY <1>1
<1>2. CASE b = 16 BY <1>2
<1> QED BY <1>1, <1>2

\* One more digit after those of the quotient.
Digited(prev, m, b, F) == IF m < b THEN <<F[m + 1]>> ELSE Append(prev, F[(m % b) + 1])

\* The numerals of the numbers up to m exist.
LEMMA NumeralsExist ==
  ASSUME NEW b \in {10, 16}, NEW F, NEW max \in Nat
  PROVE  \E f : \A k \in 0..max : f[k] = Digited(f[k \div b], k, b, F)
<1> DEFINE Built(m) == \E f : \A k \in 0..m : f[k] = Digited(f[k \div b], k, b, F)
           T == {m \in Nat : ~ Built(m)}
<1>1. SUFFICES ASSUME T # {} PROVE FALSE OBVIOUS
<1>2. PICK m \in T : \A k \in T : m <= k
  <2>1. T \subseteq Nat OBVIOUS
  <2> HIDE DEF T
  <2> QED BY <1>1, <2>1, Least
<1>3. m \in Nat /\ ~ Built(m) OBVIOUS
<1>4. PICK f : \A k \in 0..(m - 1) : f[k] = Digited(f[k \div b], k, b, F)
  <2>1. CASE m = 0
    <3>1. 0..(m - 1) = {} BY <2>1
    <3> QED BY <3>1
  <2>2. CASE m # 0
    <3>1. m - 1 \in Nat /\ m - 1 < m BY <1>3, <2>2
    <3>2. Built(m - 1)
      <4> HIDE DEF Built
      <4> QED BY <1>2, <3>1
    <3> QED BY <3>2
  <2> QED BY <2>1, <2>2
<1> DEFINE g == [k \in 0..m |-> IF k = m THEN Digited(f[m \div b], m, b, F) ELSE f[k]]
<1>5. ASSUME NEW k \in 0..m PROVE g[k] = Digited(g[k \div b], k, b, F)
  <2>1. k \in Nat /\ k <= m /\ b \in Nat BY <1>3
  <2>2. g[k] = Digited(f[k \div b], k, b, F)
    <3>1. k # m => k \in 0..(m - 1) BY <1>3
    <3> QED BY <1>4, <3>1
  <2>3. CASE k < b
    <3> HIDE DEF g
    <3> QED BY <2>2, <2>3 DEF Digited
  <2>4. CASE ~ (k < b)
    <3>1. k \div b \in Nat /\ k \div b < k BY <2>1, <2>4, DivIs
    <3>2. k \div b \in 0..m /\ k \div b # m BY <1>3, <2>1, <3>1
    <3>3. g[k \div b] = f[k \div b] BY <3>2
    <3> QED BY <2>2, <3>3
  <2> QED BY <2>3, <2>4
<1>6. Built(m)
  <2> HIDE DEF g
  <2> QED BY <1>5
<1> QED BY <1>3, <1>6

\* What Numeral returns.
LEMMA NumeralIs ==
  ASSUME NEW b \in {10, 16}, NEW F, NEW m \in 0..UINT_MAX
  PROVE  Numeral(m, b, F) = Digited(Numeral(m \div b, b, F), m, b, F)
<1> DEFINE Rec(f) == f = [k \in 0..UINT_MAX |->
                            IF k < b THEN <<F[k + 1]>>
                            ELSE Append(f[k \div b], F[(k % b) + 1])]
           numeral == CHOOSE f : Rec(f)
<1>1. \A n : Numeral(n, b, F) = numeral[n] BY Zenon DEF Numeral
<1>2. PICK f : \A k \in 0..UINT_MAX : f[k] = Digited(f[k \div b], k, b, F)
  BY Bounds, NumeralsExist
<1> DEFINE g == [k \in 0..UINT_MAX |-> f[k]]
<1>3. Rec(g)
  <2>1. ASSUME NEW k \in 0..UINT_MAX
        PROVE  g[k] = (IF k < b THEN <<F[k + 1]>> ELSE Append(g[k \div b], F[(k % b) + 1]))
    <3>1. g[k] = Digited(f[k \div b], k, b, F) BY <1>2
    <3>2. k \in Nat /\ k <= UINT_MAX /\ b \in Nat BY Bounds
    <3>3. CASE k < b BY <3>1, <3>3 DEF Digited
    <3>4. CASE ~ (k < b)
      <4>1. k \div b \in Nat /\ k \div b < k BY <3>2, <3>4, DivIs
      <4>2. k \div b \in 0..UINT_MAX BY <3>2, <4>1, Bounds
      <4>3. g[k \div b] = f[k \div b] BY <4>2
      <4> HIDE DEF g
      <4> QED BY <3>1, <3>4, <4>3 DEF Digited
    <3> QED BY <3>3, <3>4
  <2>2. g = [k \in 0..UINT_MAX |-> g[k]] OBVIOUS
  <2> HIDE DEF g
  <2> QED BY <2>1, <2>2
<1>4. Rec(numeral)
  <2> HIDE DEF Rec, g
  <2> QED BY <1>3
<1>5. numeral[m] = Digited(numeral[m \div b], m, b, F)
  <2> HIDE DEF numeral
  <2> QED BY <1>4 DEF Digited
<1> HIDE DEF numeral
<1> QED BY <1>1, <1>5

\* A numeral has a digit at least, and more digits for larger numbers only.
LEMMA NumeralTypes ==
  ASSUME NEW b \in {10, 16}, NEW F \in Seq(Nat), Len(F) >= b
  PROVE  \A m \in 0..UINT_MAX :
           /\ Numeral(m, b, F) \in Seq(Nat) /\ Len(Numeral(m, b, F)) >= 1
           /\ m < b => Len(Numeral(m, b, F)) = 1
           /\ m >= b => Len(Numeral(m, b, F)) = Len(Numeral(m \div b, b, F)) + 1
<1> DEFINE N(m) == Numeral(m, b, F)
           Good(m) == /\ N(m) \in Seq(Nat) /\ Len(N(m)) >= 1
                      /\ m < b => Len(N(m)) = 1
                      /\ m >= b => Len(N(m)) = Len(N(m \div b)) + 1
           T == {m \in 0..UINT_MAX : ~ Good(m)}
<1>1. SUFFICES ASSUME T # {} PROVE FALSE OBVIOUS
<1>2. PICK m \in T : \A k \in T : m <= k
  <2>1. T \subseteq Nat OBVIOUS
  <2> HIDE DEF T
  <2> QED BY <1>1, <2>1, Least
<1>3. m \in Nat /\ m <= UINT_MAX /\ m \in 0..UINT_MAX /\ b \in Nat BY Bounds
<1>4. N(m) = Digited(N(m \div b), m, b, F) BY <1>3, NumeralIs
<1>5. CASE m < b
  <2>1. m + 1 \in 1..Len(F) BY <1>3, <1>5
  <2>2. F[m + 1] \in Nat BY <2>1, ElementOfSeq
  <2>3. N(m) = <<F[m + 1]>> BY <1>4, <1>5 DEF Digited
  <2>4. N(m) \in Seq(Nat) /\ Len(N(m)) = 1
    <3> HIDE DEF N
    <3> QED BY <2>2, <2>3
  <2>5. Good(m)
    <3> HIDE DEF N
    <3> QED BY <2>4, <1>5, <1>3
  <2> QED BY <2>5
<1>6. CASE ~ (m < b)
  <2>1. m \div b \in Nat /\ m \div b < m /\ m % b \in Nat /\ m % b < b
    BY <1>3, <1>6, DivIs
  <2>2. m \div b \in 0..UINT_MAX /\ (m % b) + 1 \in 1..Len(F) BY <1>3, <2>1, Bounds
  <2>3. F[(m % b) + 1] \in Nat BY <2>2, ElementOfSeq
  <2>4. N(m \div b) \in Seq(Nat) /\ Len(N(m \div b)) >= 1
    <3>1. Good(m \div b)
      <4> HIDE DEF Good
      <4> QED BY <1>2, <1>3, <2>1, <2>2
    <3> QED BY <3>1
  <2>5. N(m) = Append(N(m \div b), F[(m % b) + 1]) BY <1>4, <1>6 DEF Digited
  <2>6. N(m) \in Seq(Nat) /\ Len(N(m)) = Len(N(m \div b)) + 1
    <3> HIDE DEF N
    <3> QED BY <2>3, <2>4, <2>5, AppendProperties
  <2>7. Len(N(m)) >= 1
    <3> HIDE DEF N
    <3>1. Len(N(m \div b)) \in Nat BY <2>4
    <3> QED BY <2>4, <2>6, <3>1
  <2>8. Good(m)
    <3> HIDE DEF N
    <3> QED BY <2>6, <2>7, <1>6, <1>3
  <2> QED BY <2>8
<1> QED BY <1>5, <1>6

LEMMA NumeralGrows ==
  ASSUME NEW b \in {10, 16}, NEW F \in Seq(Nat), Len(F) >= b,
         NEW m \in 0..UINT_MAX, NEW n \in 0..m
  PROVE  Len(Numeral(n, b, F)) <= Len(Numeral(m, b, F))
<1> DEFINE N(k) == Numeral(k, b, F)
           Good(k) == \A l \in 0..k : Len(N(l)) <= Len(N(k))
           T == {k \in 0..UINT_MAX : ~ Good(k)}
<1>1. SUFFICES ASSUME T # {} PROVE FALSE OBVIOUS
<1>2. PICK k \in T : \A l \in T : k <= l
  <2>1. T \subseteq Nat OBVIOUS
  <2> HIDE DEF T
  <2> QED BY <1>1, <2>1, Least
<1>3. k \in Nat /\ k <= UINT_MAX /\ k \in 0..UINT_MAX /\ b \in Nat BY Bounds
<1>4. \A l \in 0..UINT_MAX :
        /\ Len(N(l)) \in Nat /\ Len(N(l)) >= 1
        /\ l < b => Len(N(l)) = 1
        /\ l >= b => Len(N(l)) = Len(N(l \div b)) + 1
  <2>1. \A l \in 0..UINT_MAX :
          /\ N(l) \in Seq(Nat) /\ Len(N(l)) >= 1
          /\ l < b => Len(N(l)) = 1
          /\ l >= b => Len(N(l)) = Len(N(l \div b)) + 1 BY NumeralTypes
  <2> HIDE DEF N
  <2> QED BY <2>1
<1>5. PICK l \in 0..k : ~ (Len(N(l)) <= Len(N(k))) BY <1>2
<1>6. l \in 0..UINT_MAX /\ l \in Nat /\ l <= k BY <1>3, Bounds
<1>7. l >= b
  <2> HIDE DEF N
  <2> SUFFICES ASSUME l < b PROVE FALSE BY <1>3, <1>6
  <2>1. Len(N(l)) = 1 /\ Len(N(k)) >= 1 BY <1>4, <1>6, <1>3
  <2> QED BY <2>1, <1>5, <1>4, <1>3
<1>8. k >= b BY <1>3, <1>6, <1>7
<1>9. /\ l \div b \in Nat /\ l \div b < l /\ k \div b \in Nat /\ k \div b < k
      /\ l \div b <= k \div b
  BY <1>3, <1>6, <1>7, <1>8, DivIs
<1>10. k \div b \in 0..UINT_MAX /\ l \div b \in 0..(k \div b) /\ l \div b \in 0..UINT_MAX
  BY <1>3, <1>9, Bounds
<1>11. Good(k \div b)
  <2> HIDE DEF Good
  <2> QED BY <1>2, <1>3, <1>9, <1>10
<1>12. Len(N(l \div b)) <= Len(N(k \div b)) BY <1>10, <1>11
<1> HIDE DEF N
<1> QED BY <1>3, <1>4, <1>5, <1>6, <1>7, <1>8, <1>10, <1>12

------------------------------------------------------------------------------
(***************************************************************************)
(* What an argument is written as.                                         *)

NumArg == ({"d"} \X Ints) \cup ({"u", "x", "X"} \X Uints)
Arg == ({"c"} \X {<<l>> : l \in Chars}) \cup ({"s"} \X Strings) \cup NumArg

\* How printf converts a number, by its directive.
Hexadecimal(a) == a[1] \in {"x", "X"}
Base(a) == IF Hexadecimal(a) THEN 16 ELSE 10
Glyphs(a) == IF a[1] = "x" THEN Lower ELSE IF a[1] = "X" THEN Upper ELSE Figures
Alpha(a) == IF a[1] = "x" THEN 87 ELSE IF a[1] = "X" THEN 55 ELSE 0
Size(a) == IF a[1] = "d" THEN IntSize ELSE IF a[1] = "u" THEN UintSize ELSE HexSize
Lead(a) == IF Hexadecimal(a) THEN <<48, 120>> ELSE <<>>
Sign(a) == IF a[1] = "d" /\ a[2] < 0 THEN <<Minus>> ELSE <<>>
Abs(a) == IF a[2] < 0 THEN -a[2] ELSE a[2]
Digits(a) == Numeral(Abs(a), Base(a), Glyphs(a))

LEMMA NumArgIs ==
  ASSUME NEW a \in NumArg
  PROVE  /\ a[1] \in {"d", "u", "x", "X"} /\ a[2] \in Int
         /\ -(INT_MAX + 1) <= a[2] /\ a[2] <= UINT_MAX
         /\ a[1] = "d" => a[2] <= INT_MAX
         /\ a[1] # "d" => a[2] >= 0
<1>1. Ints \subseteq -(INT_MAX + 1)..INT_MAX /\ Uints \subseteq 0..UINT_MAX
  BY PrintfAssumption
<1>2. CASE a \in {"d"} \X Ints
  <2>1. a[1] = "d" /\ a[2] \in Ints BY <1>2
  <2>2. a[2] \in -(INT_MAX + 1)..INT_MAX BY <1>1, <2>1
  <2> QED BY <2>1, <2>2, Bounds
<1>3. CASE a \in {"u", "x", "X"} \X Uints
  <2>1. a[1] \in {"u", "x", "X"} /\ a[2] \in Uints BY <1>3
  <2>2. a[2] \in 0..UINT_MAX BY <1>1, <2>1
  <2> QED BY <2>1, <2>2, Bounds
<1> QED BY <1>2, <1>3 DEF NumArg

\* The first n figures are the characters that the loop computes from a digit.
Figured(F, n, alpha) ==
  /\ F \in Seq(Nat) /\ Len(F) >= n
  /\ \A v \in Nat : v < n => F[v + 1] = v + (IF v > 9 THEN alpha ELSE 48)

LEMMA DecimalFigures == ASSUME NEW alpha \in Nat PROVE Figured(Figures, 10, alpha)
<1>1. Figures \in Seq(Nat) /\ Len(Figures) = 10 BY DEF Figures
<1>2. ASSUME NEW v \in Nat, v < 10 PROVE Figures[v + 1] = v + 48 /\ ~ (v > 9)
  <2>1. \/ v = 0 \/ v = 1 \/ v = 2 \/ v = 3 \/ v = 4
        \/ v = 5 \/ v = 6 \/ v = 7 \/ v = 8 \/ v = 9 BY <1>2
  <2> QED BY <2>1 DEF Figures
<1> QED BY <1>1, <1>2 DEF Figured

LEMMA MoreFigures ==
  ASSUME NEW s \in Seq(Nat), Len(s) = 6, NEW alpha \in Nat,
         \A v \in Nat : 9 < v /\ v < 16 => s[v - 9] = v + alpha
  PROVE  Figured(Figures \o s, 16, alpha)
<1>1. /\ Figures \in Seq(Nat) /\ Len(Figures) = 10
      /\ \A v \in Nat : v < 10 => Figures[v + 1] = v + 48
  <2>1. Figured(Figures, 10, 0) BY DecimalFigures
  <2>2. Len(Figures) = 10 /\ Figures \in Seq(Nat) BY DEF Figures
  <2>3. ASSUME NEW v \in Nat, v < 10 PROVE Figures[v + 1] = v + 48
    <3>1. Figures[v + 1] = v + (IF v > 9 THEN 0 ELSE 48) BY <2>1, <2>3 DEF Figured
    <3>2. ~ (v > 9) BY <2>3
    <3> QED BY <3>1, <3>2
  <2> QED BY <2>2, <2>3
<1>2. /\ Figures \o s \in Seq(Nat) /\ Len(Figures \o s) = Len(Figures) + Len(s)
      /\ \A k \in 1..(Len(Figures) + Len(s)) : (Figures \o s)[k] =
                     IF k <= Len(Figures) THEN Figures[k] ELSE s[k - Len(Figures)]
  BY <1>1, ConcatProperties
<1>3. ASSUME NEW v \in Nat, v < 16
      PROVE  (Figures \o s)[v + 1] = v + (IF v > 9 THEN alpha ELSE 48)
  <2>1. v + 1 \in 1..(Len(Figures) + Len(s)) BY <1>1, <1>3
  <2>2. CASE v < 10
    <3>1. v + 1 <= Len(Figures) /\ ~ (v > 9) BY <1>1, <2>2
    <3> QED BY <1>1, <1>2, <2>1, <2>2, <3>1
  <2>3. CASE ~ (v < 10)
    <3>1. ~ (v + 1 <= Len(Figures)) /\ v > 9 /\ (v + 1) - Len(Figures) = v - 9 BY <1>1, <2>3
    <3>2. (Figures \o s)[v + 1] = s[v - 9] BY <1>2, <2>1, <3>1
    <3> QED BY <1>3, <3>1, <3>2
  <2> QED BY <2>2, <2>3
<1>4. Len(Figures \o s) >= 16 BY <1>1, <1>2
<1> QED BY <1>2, <1>3, <1>4, Zenon DEF Figured

LEMMA GlyphsIs ==
  ASSUME NEW a
  PROVE  /\ Base(a) \in {10, 16} /\ Glyphs(a) \in Seq(Nat) /\ Len(Glyphs(a)) >= Base(a)
         /\ Figured(Glyphs(a), Base(a), Alpha(a))
<1>1. Figured(Lower, 16, 87)
  <2> DEFINE s == <<97, 98, 99, 100, 101, 102>>
  <2>1. s \in Seq(Nat) /\ Len(s) = 6 OBVIOUS
  <2>2. ASSUME NEW v \in Nat, 9 < v, v < 16 PROVE s[v - 9] = v + 87
    <3>1. v = 10 \/ v = 11 \/ v = 12 \/ v = 13 \/ v = 14 \/ v = 15 BY <2>2
    <3> QED BY <3>1
  <2>3. Lower = Figures \o s BY DEF Lower
  <2> HIDE DEF s
  <2>4. Figured(Figures \o s, 16, 87) BY <2>1, <2>2, MoreFigures
  <2> QED BY <2>3, <2>4
<1>2. Figured(Upper, 16, 55)
  <2> DEFINE s == <<65, 66, 67, 68, 69, 70>>
  <2>1. s \in Seq(Nat) /\ Len(s) = 6 OBVIOUS
  <2>2. ASSUME NEW v \in Nat, 9 < v, v < 16 PROVE s[v - 9] = v + 55
    <3>1. v = 10 \/ v = 11 \/ v = 12 \/ v = 13 \/ v = 14 \/ v = 15 BY <2>2
    <3> QED BY <3>1
  <2>3. Upper = Figures \o s BY DEF Upper
  <2> HIDE DEF s
  <2>4. Figured(Figures \o s, 16, 55) BY <2>1, <2>2, MoreFigures
  <2> QED BY <2>3, <2>4
<1>3. Figured(Figures, 10, Alpha(a))
  <2>1. Alpha(a) \in Nat BY DEF Alpha
  <2> QED BY <2>1, DecimalFigures
<1>4. Figured(Glyphs(a), Base(a), Alpha(a))
  <2>1. CASE a[1] = "x" BY <1>1, <2>1 DEF Base, Glyphs, Alpha, Hexadecimal
  <2>2. CASE a[1] = "X" BY <1>2, <2>2 DEF Base, Glyphs, Alpha, Hexadecimal
  <2>3. CASE a[1] \notin {"x", "X"}
    BY <1>3, <2>3 DEF Base, Glyphs, Hexadecimal
  <2> QED BY <2>1, <2>2, <2>3
<1> QED BY <1>4 DEF Figured, Base

\* The digits of an argument, which its buffer has room for.
LEMMA DigitsAre ==
  ASSUME NEW a \in NumArg
  PROVE  /\ Abs(a) \in 0..UINT_MAX
         /\ Digits(a) \in Seq(Nat) /\ Len(Digits(a)) >= 1
         /\ Sign(a) \in Seq(Nat) /\ Len(Sign(a)) \in Nat /\ Len(Sign(a)) <= 1
         /\ Lead(a) \in Seq(Nat) /\ Len(Lead(a)) = (IF Hexadecimal(a) THEN 2 ELSE 0)
         /\ Len(Sign(a)) + Len(Digits(a)) <= Size(a) /\ Size(a) \in Nat
<1>1. /\ Base(a) \in {10, 16} /\ Glyphs(a) \in Seq(Nat) /\ Len(Glyphs(a)) >= Base(a)
  BY GlyphsIs
<1>2. Abs(a) \in 0..UINT_MAX /\ (a[1] = "d" => Abs(a) \in 0..(INT_MAX + 1))
  BY NumArgIs, Bounds DEF Abs
<1>3. Digits(a) \in Seq(Nat) /\ Len(Digits(a)) >= 1
  BY <1>1, <1>2, NumeralTypes DEF Digits
<1>4. Sign(a) \in Seq(Nat) /\ Len(Sign(a)) \in Nat /\ Len(Sign(a)) <= 1 BY DEF Sign, Minus
<1>5. Lead(a) \in Seq(Nat) /\ Len(Lead(a)) = (IF Hexadecimal(a) THEN 2 ELSE 0) BY DEF Lead
<1>6. Len(Sign(a)) + Len(Digits(a)) <= Size(a)
  <2>1. Len(Digits(a)) \in Nat BY <1>3
  <2>2. /\ Len(Numeral(INT_MAX + 1, 10, Figures)) < IntSize
        /\ Len(Numeral(UINT_MAX, 10, Figures)) <= UintSize
        /\ Len(Numeral(UINT_MAX, 16, Lower)) <= HexSize
        /\ Len(Numeral(UINT_MAX, 16, Upper)) <= HexSize
    BY BufferAssumption
  <2>3. UINT_MAX \in 0..UINT_MAX /\ INT_MAX + 1 \in 0..UINT_MAX BY Bounds
  <2>4. CASE a[1] = "d"
    <3>1. Base(a) = 10 /\ Glyphs(a) = Figures /\ Size(a) = IntSize
      BY <2>4 DEF Base, Glyphs, Size, Hexadecimal
    <3>2. Len(Digits(a)) <= Len(Numeral(INT_MAX + 1, 10, Figures))
      BY <1>1, <1>2, <2>3, <2>4, <3>1, NumeralGrows DEF Digits
    <3>3. Len(Numeral(INT_MAX + 1, 10, Figures)) \in Nat
      <4>1. Numeral(INT_MAX + 1, 10, Figures) \in Seq(Nat) BY <1>1, <2>3, <3>1, NumeralTypes
      <4> QED BY <4>1
    <3>4. Len(Sign(a)) \in Nat /\ Len(Sign(a)) <= 1 BY <1>4
    <3> HIDE DEF Digits
    <3> QED BY <2>1, <2>2, <3>1, <3>2, <3>3, <3>4, Bounds
  <2>5. CASE a[1] # "d"
    <3>1. Sign(a) = <<>> /\ Len(Sign(a)) = 0 BY <2>5 DEF Sign
    <3>2. Len(Digits(a)) <= Len(Numeral(UINT_MAX, Base(a), Glyphs(a)))
      BY <1>1, <1>2, <2>3, NumeralGrows DEF Digits
    <3>3. Len(Numeral(UINT_MAX, Base(a), Glyphs(a))) <= Size(a)
      <4>1. a[1] \in {"u", "x", "X"} BY <2>5, NumArgIs
      <4>2. CASE a[1] = "u" BY <2>2, <4>2 DEF Base, Glyphs, Size, Hexadecimal
      <4>3. CASE a[1] = "x" BY <2>2, <4>3 DEF Base, Glyphs, Size, Hexadecimal
      <4>4. CASE a[1] = "X" BY <2>2, <4>4 DEF Base, Glyphs, Size, Hexadecimal
      <4> QED BY <4>1, <4>2, <4>3, <4>4
    <3>4. Len(Numeral(UINT_MAX, Base(a), Glyphs(a))) \in Nat
      <4>1. Numeral(UINT_MAX, Base(a), Glyphs(a)) \in Seq(Nat) BY <1>1, <2>3, NumeralTypes
      <4> QED BY <4>1
    <3>5. Size(a) \in Nat BY Bounds DEF Size
    <3> QED BY <2>1, <3>1, <3>2, <3>3, <3>4, <3>5
  <2> QED BY <2>4, <2>5
<1> QED BY <1>2, <1>3, <1>4, <1>5, <1>6, Bounds DEF Size

LEMMA SpelledIs ==
  ASSUME NEW a \in NumArg
  PROVE  /\ Spelled(a) = Lead(a) \o (Sign(a) \o Digits(a))
         /\ Sign(a) \o Digits(a) \in Seq(Nat)
         /\ Len(Sign(a) \o Digits(a)) = Len(Sign(a)) + Len(Digits(a))
<1>1. Digits(a) \in Seq(Nat) /\ Sign(a) \in Seq(Nat) BY DigitsAre
<1>2. <<>> \o Digits(a) = Digits(a) BY <1>1, ConcatEmptySeq
<1>3. Sign(a) \o Digits(a) \in Seq(Nat) BY <1>1, ConcatProperties
<1>4. <<>> \o (Sign(a) \o Digits(a)) = Sign(a) \o Digits(a) BY <1>3, ConcatEmptySeq
<1>5. a[1] \in {"d", "u", "x", "X"} /\ a[2] \in Int /\ (a[1] # "d" => a[2] >= 0)
  BY NumArgIs
<1>6. CASE a[1] = "d" /\ a[2] < 0
  <2>1. Spelled(a) = <<Minus>> \o Numeral(-a[2], 10, Figures) BY <1>5, <1>6 DEF Spelled
  <2>2. Sign(a) = <<Minus>> /\ Lead(a) = <<>> BY <1>6 DEF Sign, Lead, Hexadecimal
  <2>3. Digits(a) = Numeral(-a[2], 10, Figures)
    BY <1>6 DEF Digits, Abs, Base, Glyphs, Hexadecimal
  <2> QED BY <1>3, <1>4, <2>1, <2>2, <2>3, <1>1, ConcatProperties
<1>7. CASE ~ (a[1] = "d" /\ a[2] < 0)
  <2>1. a[2] >= 0 /\ ~ (a[2] < 0) BY <1>5, <1>7
  <2>2. Sign(a) = <<>> /\ Abs(a) = a[2] BY <1>7, <2>1 DEF Sign, Abs
  <2>3. CASE a[1] = "d"
    <3>1. Spelled(a) = Numeral(a[2], 10, Figures) BY <2>1, <2>3 DEF Spelled
    <3>2. Digits(a) = Numeral(a[2], 10, Figures) /\ Lead(a) = <<>>
      BY <2>2, <2>3 DEF Digits, Base, Glyphs, Lead, Hexadecimal
    <3> QED BY <1>2, <1>3, <1>4, <2>2, <3>1, <3>2, <1>1, ConcatProperties
  <2>4. CASE a[1] = "u"
    <3>1. Spelled(a) = Numeral(a[2], 10, Figures) BY <2>4 DEF Spelled
    <3>2. Digits(a) = Numeral(a[2], 10, Figures) /\ Lead(a) = <<>>
      BY <2>2, <2>4 DEF Digits, Base, Glyphs, Lead, Hexadecimal
    <3> QED BY <1>2, <1>3, <1>4, <2>2, <3>1, <3>2, <1>1, ConcatProperties
  <2>5. CASE a[1] = "x"
    <3>1. Spelled(a) = <<48, 120>> \o Numeral(a[2], 16, Lower) BY <2>5 DEF Spelled
    <3>2. Digits(a) = Numeral(a[2], 16, Lower) /\ Lead(a) = <<48, 120>>
      BY <2>2, <2>5 DEF Digits, Base, Glyphs, Lead, Hexadecimal
    <3> QED BY <1>2, <1>3, <1>4, <2>2, <3>1, <3>2, <1>1, ConcatProperties
  <2>6. CASE a[1] = "X"
    <3>1. Spelled(a) = <<48, 120>> \o Numeral(a[2], 16, Upper) BY <2>6 DEF Spelled
    <3>2. Digits(a) = Numeral(a[2], 16, Upper) /\ Lead(a) = <<48, 120>>
      BY <2>2, <2>6 DEF Digits, Base, Glyphs, Lead, Hexadecimal
    <3> QED BY <1>2, <1>3, <1>4, <2>2, <3>1, <3>2, <1>1, ConcatProperties
  <2> QED BY <1>5, <2>3, <2>4, <2>5, <2>6
<1> QED BY <1>6, <1>7

LEMMA ArgSpelled ==
  ASSUME NEW a \in Arg
  PROVE  Spelled(a) \in Seq(Nat)
<1>1. Strings \subseteq Seq(Nat \ {0}) /\ Chars \subseteq Nat BY PrintfAssumption
<1>2. CASE a \in NumArg
  <2>1. Sign(a) \o Digits(a) \in Seq(Nat) /\ Lead(a) \in Seq(Nat)
    BY <1>2, SpelledIs, DigitsAre
  <2> QED BY <1>2, <2>1, SpelledIs, ConcatProperties
<1>3. CASE a \in {"c"} \X {<<l>> : l \in Chars}
  <2>1. a[1] = "c" /\ a[2] \in {<<l>> : l \in Chars} BY <1>3
  <2>2. PICK l \in Chars : a[2] = <<l>> BY <2>1
  <2>3. l \in Nat BY <1>1
  <2>4. Spelled(a) = a[2] BY <2>1 DEF Spelled
  <2> QED BY <2>2, <2>3, <2>4
<1>4. CASE a \in {"s"} \X Strings
  <2>1. a[1] = "s" /\ a[2] \in Strings BY <1>4
  <2>2. a[2] \in Seq(Nat) BY <1>1, <2>1, SeqMonotonic
  <2>3. Spelled(a) = a[2] BY <2>1 DEF Spelled
  <2> QED BY <2>2, <2>3
<1> QED BY <1>2, <1>3, <1>4 DEF Arg

------------------------------------------------------------------------------
(***************************************************************************)
(* The text that a format stands for.                                      *)

Str == Seq(Nat \ {0})
Codes == {99, 115, 100, 117, 120, 88}

LEMMA Letters ==
  /\ DOMAIN Ord = {"c", "s", "d", "u", "x", "X"}
  /\ \A l \in DOMAIN Ord : Ord[l] \in Codes
  /\ \A c \in Codes : \E l \in DOMAIN Ord : Ord[l] = c
  /\ {Ord[l] : l \in DOMAIN Ord} = Codes
  /\ \A c : Named(c) <=> c \in Codes
  /\ ~ Named(Percent) /\ \A l \in DOMAIN Ord : Ord[l] # Percent
<1>1. DOMAIN Ord = {"c", "s", "d", "u", "x", "X"} BY DEF Ord
<1>2. /\ Ord["c"] = 99 /\ Ord["s"] = 115 /\ Ord["d"] = 100
      /\ Ord["u"] = 117 /\ Ord["x"] = 120 /\ Ord["X"] = 88 BY DEF Ord
<1>3. \A l \in DOMAIN Ord : Ord[l] \in Codes BY <1>1, <1>2 DEF Codes
<1>4. \A c \in Codes : \E l \in DOMAIN Ord : Ord[l] = c BY <1>1, <1>2 DEF Codes
<1>5. \A c : Named(c) <=> c \in Codes BY <1>3, <1>4 DEF Named
<1>6. Percent \notin Codes BY DEF Codes, Percent
<1> QED BY <1>1, <1>3, <1>4, <1>5, <1>6

\* What one character of the format adds to what follows it.
Piece(f, g, k, one, two) == [n \in 1..(Len(g) + 1) |-> Placed(f, g, k, one, two, n)]

LEMMA PieceEnd ==
  ASSUME NEW f, NEW g, NEW k, CharOf(f, k) = 0, NEW u, NEW v, NEW w, NEW x
  PROVE  Piece(f, g, k, u, v) = Piece(f, g, k, w, x)
<1>1. ASSUME NEW one, NEW two
      PROVE  Piece(f, g, k, one, two) = [n \in 1..(Len(g) + 1) |-> <<>>]
  BY DEF Piece, Placed, Percent
<1> QED BY <1>1

\* The texts from the k-th character on exist, the last one first.
LEMMA TextsExist ==
  ASSUME NEW f \in Str, NEW g
  PROVE  \E t : \A k \in 1..(Len(f) + 2) : t[k] = Piece(f, g, k, t[k + 1], t[k + 2])
<1> DEFINE Top == Len(f) + 2
           Built(m) == \E t : \A k \in (Top - m)..Top :
                                 t[k] = Piece(f, g, k, t[k + 1], t[k + 2])
           T == {m \in 0..(Top - 1) : ~ Built(m)}
<1>1. Len(f) \in Nat /\ Top \in Nat /\ Top = Len(f) + 2 BY DEF Str
<1> HIDE DEF Top
<1>2. SUFFICES ASSUME T # {} PROVE FALSE
  <2>1. Top - 1 \in 0..(Top - 1) /\ Top - (Top - 1) = 1 BY <1>1
  <2>2. ASSUME Built(Top - 1) PROVE \E t : \A k \in 1..Top : t[k] = Piece(f, g, k, t[k + 1], t[k + 2])
    BY <2>1, <2>2
  <2> HIDE DEF Built
  <2> QED BY <2>1, <2>2, <1>1
<1>3. PICK m \in T : \A k \in T : m <= k
  <2>1. T \subseteq Nat BY <1>1
  <2> HIDE DEF T
  <2> QED BY <1>2, <2>1, Least
<1>4. m \in Nat /\ m < Top /\ ~ Built(m) BY <1>1
<1>5. PICK t : \A k \in (Top - m + 1)..Top : t[k] = Piece(f, g, k, t[k + 1], t[k + 2])
  <2>1. CASE m = 0
    <3>1. (Top - m + 1)..Top = {} BY <1>1, <2>1
    <3> QED BY <3>1
  <2>2. CASE m # 0
    <3>1. m - 1 \in 0..(Top - 1) /\ m - 1 < m /\ Top - (m - 1) = Top - m + 1
      BY <1>1, <1>4, <2>2
    <3>2. Built(m - 1)
      <4> HIDE DEF Built
      <4> QED BY <1>3, <1>4, <3>1
    <3> QED BY <3>1, <3>2
  <2> QED BY <2>1, <2>2
<1> DEFINE at0 == Top - m
           new == Piece(f, g, at0, t[at0 + 1], t[at0 + 2])
           u == [k \in 1..Top |-> IF k = at0 THEN new ELSE t[k]]
<1>6. at0 \in 1..Top /\ at0 \in Nat BY <1>1, <1>4
<1>7. ASSUME NEW k \in at0..Top PROVE u[k] = Piece(f, g, k, u[k + 1], u[k + 2])
  <2>1. k \in 1..Top /\ k \in Nat /\ at0 <= k /\ k <= Top BY <1>1, <1>6
  <2>2. u[k] = Piece(f, g, k, t[k + 1], t[k + 2])
    <3>1. CASE k = at0 BY <2>1, <3>1
    <3>2. CASE k # at0
      <4>1. k \in (Top - m + 1)..Top BY <1>1, <1>4, <2>1, <3>2
      <4>2. u[k] = t[k] BY <2>1, <3>2
      <4> HIDE DEF u
      <4> QED BY <1>5, <4>1, <4>2
    <3> QED BY <3>1, <3>2
  <2>3. CASE k <= Len(f)
    <3>1. k + 1 \in 1..Top /\ k + 1 # at0 /\ k + 2 \in 1..Top /\ k + 2 # at0
      BY <1>1, <1>6, <2>1, <2>3
    <3>2. u[k + 1] = t[k + 1] /\ u[k + 2] = t[k + 2] BY <3>1
    <3> HIDE DEF u
    <3> QED BY <2>2, <3>2
  <2>4. CASE ~ (k <= Len(f))
    <3>1. CharOf(f, k) = 0 BY <2>4 DEF CharOf
    <3> HIDE DEF u
    <3> QED BY <2>2, <3>1, PieceEnd
  <2> QED BY <2>3, <2>4
<1>8. Built(m)
  <2> HIDE DEF u
  <2> QED BY <1>7
<1> QED BY <1>4, <1>8

LEMMA TextsAre ==
  ASSUME NEW f \in Str, NEW g, NEW k \in 1..(Len(f) + 2)
  PROVE  Texts(f, g)[k] = Piece(f, g, k, Texts(f, g)[k + 1], Texts(f, g)[k + 2])
<1> DEFINE Like(t) == t = [k_1 \in 1..(Len(f) + 2) |-> Piece(f, g, k_1, t[k_1 + 1], t[k_1 + 2])]
           text == CHOOSE t : Like(t)
<1>1. Texts(f, g) = text BY Zenon DEF Texts, Piece
<1>2. PICK t : \A l \in 1..(Len(f) + 2) : t[l] = Piece(f, g, l, t[l + 1], t[l + 2])
  BY TextsExist
<1> DEFINE u == [l \in 1..(Len(f) + 2) |-> t[l]]
<1>3. Like(u)
  <2>1. ASSUME NEW l \in 1..(Len(f) + 2) PROVE u[l] = Piece(f, g, l, u[l + 1], u[l + 2])
    <3>1. u[l] = Piece(f, g, l, t[l + 1], t[l + 2]) BY <1>2
    <3>2. Len(f) \in Nat /\ l \in Nat BY DEF Str
    <3>3. CASE l <= Len(f)
      <4>1. l + 1 \in 1..(Len(f) + 2) /\ l + 2 \in 1..(Len(f) + 2) BY <3>2, <3>3
      <4>2. u[l + 1] = t[l + 1] /\ u[l + 2] = t[l + 2] BY <4>1
      <4> HIDE DEF u
      <4> QED BY <3>1, <4>2
    <3>4. CASE ~ (l <= Len(f))
      <4>1. CharOf(f, l) = 0 BY <3>4 DEF CharOf
      <4> HIDE DEF u
      <4> QED BY <3>1, <4>1, PieceEnd
    <3> QED BY <3>3, <3>4
  <2>2. u = [l \in 1..(Len(f) + 2) |-> u[l]] OBVIOUS
  <2> HIDE DEF u
  <2> QED BY <2>1, <2>2
<1>4. Like(text)
  <2> HIDE DEF Like, u
  <2> QED BY <1>3
<1>5. text[k] = Piece(f, g, k, text[k + 1], text[k + 2])
  <2> HIDE DEF text
  <2> QED BY <1>4
<1> HIDE DEF text
<1> QED BY <1>1, <1>5

\* What follows the k-th character, case by case.
LEMMA TextEnd ==
  ASSUME NEW f \in Str, NEW g \in Seq(Arg), NEW k \in 1..(Len(f) + 2),
         NEW n \in 1..(Len(g) + 1), k > Len(f)
  PROVE  Texts(f, g)[k][n] = <<>>
<1> DEFINE t == Texts(f, g)
<1>1. CharOf(f, k) = 0 BY DEF CharOf
<1>2. t[k] = Piece(f, g, k, t[k + 1], t[k + 2]) BY TextsAre
<1>3. Piece(f, g, k, t[k + 1], t[k + 2])[n] = <<>>
  <2> HIDE DEF t
  <2>8. Percent # 0 BY DEF Percent
  <2>9. Piece(f, g, k, t[k + 1], t[k + 2])[n] = Placed(f, g, k, t[k + 1], t[k + 2], n)
    BY <1>2 DEF Piece
  <2> QED BY <1>1, <2>8, <2>9 DEF Placed
<1> QED BY <1>2, <1>3

LEMMA TextOrdinary ==
  ASSUME NEW f \in Str, NEW g \in Seq(Arg), NEW k \in 1..Len(f),
         NEW n \in 1..(Len(g) + 1), f[k] # Percent
  PROVE  Texts(f, g)[k][n] = <<f[k]>> \o Texts(f, g)[k + 1][n]
<1> DEFINE t == Texts(f, g)
<1>1. Len(f) \in Nat /\ f[k] \in Nat \ {0} BY ElementOfSeq DEF Str
<1>2. k \in 1..(Len(f) + 2) /\ CharOf(f, k) = f[k] BY <1>1 DEF CharOf
<1>3. t[k] = Piece(f, g, k, t[k + 1], t[k + 2]) BY <1>2, TextsAre
<1>4. Piece(f, g, k, t[k + 1], t[k + 2])[n] = <<f[k]>> \o t[k + 1][n]
  <2> HIDE DEF t
  <2>8. Percent # 0 BY DEF Percent
  <2>9. Piece(f, g, k, t[k + 1], t[k + 2])[n] = Placed(f, g, k, t[k + 1], t[k + 2], n)
    BY <1>2 DEF Piece
  <2> QED BY <1>1, <1>2, <2>8, <2>9 DEF Placed
<1> QED BY <1>3, <1>4

LEMMA TextTwo ==
  ASSUME NEW f \in Str, NEW g \in Seq(Arg), NEW k \in 1..Len(f),
         NEW n \in 1..(Len(g) + 1), f[k] = Percent, CharOf(f, k + 1) = Percent
  PROVE  Texts(f, g)[k][n] = <<Percent>> \o Texts(f, g)[k + 2][n]
<1> DEFINE t == Texts(f, g)
<1>1. Len(f) \in Nat BY DEF Str
<1>2. k \in 1..(Len(f) + 2) /\ CharOf(f, k) = Percent BY <1>1 DEF CharOf
<1>3. t[k] = Piece(f, g, k, t[k + 1], t[k + 2]) BY <1>2, TextsAre
<1>4. Piece(f, g, k, t[k + 1], t[k + 2])[n] = <<Percent>> \o t[k + 2][n]
  <2>1. ~ Named(Percent) BY Letters
  <2> HIDE DEF t
  <2>8. Percent # 0 BY DEF Percent
  <2>9. Piece(f, g, k, t[k + 1], t[k + 2])[n] = Placed(f, g, k, t[k + 1], t[k + 2], n)
    BY <1>2 DEF Piece
  <2> QED BY <1>2, <2>1, <2>8, <2>9 DEF Placed
<1> QED BY <1>3, <1>4

LEMMA TextArg ==
  ASSUME NEW f \in Str, NEW g \in Seq(Arg), NEW k \in 1..Len(f),
         NEW n \in 1..Len(g), f[k] = Percent,
         NEW l \in DOMAIN Ord, CharOf(f, k + 1) = Ord[l]
  PROVE  Texts(f, g)[k][n] = Spelled(g[n]) \o Texts(f, g)[k + 2][n + 1]
<1> DEFINE t == Texts(f, g)
<1>1. Len(f) \in Nat /\ Len(g) \in Nat BY DEF Str
<1>2. k \in 1..(Len(f) + 2) /\ CharOf(f, k) = Percent /\ n \in 1..(Len(g) + 1)
      /\ ~ (n > Len(g)) BY <1>1 DEF CharOf
<1>3. t[k] = Piece(f, g, k, t[k + 1], t[k + 2]) BY <1>2, TextsAre
<1>4. Piece(f, g, k, t[k + 1], t[k + 2])[n] = Spelled(g[n]) \o t[k + 2][n + 1]
  <2>1. CharOf(f, k + 1) # Percent BY Letters
  <2>2. Named(CharOf(f, k + 1)) BY DEF Named
  <2> HIDE DEF t
  <2>8. Percent # 0 BY DEF Percent
  <2>9. Piece(f, g, k, t[k + 1], t[k + 2])[n] = Placed(f, g, k, t[k + 1], t[k + 2], n)
    BY <1>2 DEF Piece
  <2> QED BY <1>2, <2>1, <2>2, <2>8, <2>9 DEF Placed
<1> QED BY <1>3, <1>4

LEMMA TextOther ==
  ASSUME NEW f \in Str, NEW g \in Seq(Arg), NEW k \in 1..Len(f),
         NEW n \in 1..(Len(g) + 1), f[k] = Percent,
         CharOf(f, k + 1) # Percent, CharOf(f, k + 1) \notin Codes
  PROVE  Texts(f, g)[k][n] = SubSeq(f, k, Len(f))
<1> DEFINE t == Texts(f, g)
<1>1. Len(f) \in Nat BY DEF Str
<1>2. k \in 1..(Len(f) + 2) /\ CharOf(f, k) = Percent BY <1>1 DEF CharOf
<1>3. t[k] = Piece(f, g, k, t[k + 1], t[k + 2]) BY <1>2, TextsAre
<1>4. Piece(f, g, k, t[k + 1], t[k + 2])[n] = SubSeq(f, k, Len(f))
  <2>1. ~ Named(CharOf(f, k + 1)) BY Letters
  <2> HIDE DEF t
  <2>8. Percent # 0 BY DEF Percent
  <2>9. Piece(f, g, k, t[k + 1], t[k + 2])[n] = Placed(f, g, k, t[k + 1], t[k + 2], n)
    BY <1>2 DEF Piece
  <2> QED BY <1>2, <2>1, <2>8, <2>9 DEF Placed
<1> QED BY <1>3, <1>4

\* A directive without an argument ends the text.
LEMMA TextWaits ==
  ASSUME NEW f \in Str, NEW g \in Seq(Arg), NEW k \in 1..Len(f),
         f[k] = Percent, NEW l \in DOMAIN Ord, CharOf(f, k + 1) = Ord[l]
  PROVE  Texts(f, g)[k][Len(g) + 1] = <<>>
<1> DEFINE t == Texts(f, g)
           n == Len(g) + 1
<1>1. Len(f) \in Nat /\ Len(g) \in Nat BY DEF Str
<1>2. k \in 1..(Len(f) + 2) /\ CharOf(f, k) = Percent /\ n \in 1..(Len(g) + 1)
      /\ n > Len(g) BY <1>1 DEF CharOf
<1>3. t[k] = Piece(f, g, k, t[k + 1], t[k + 2]) BY <1>2, TextsAre
<1>4. Piece(f, g, k, t[k + 1], t[k + 2])[n] = <<>>
  <2>1. CharOf(f, k + 1) # Percent BY Letters
  <2>2. Named(CharOf(f, k + 1)) BY DEF Named
  <2> HIDE DEF t, n
  <2>8. Percent # 0 BY DEF Percent
  <2>9. Piece(f, g, k, t[k + 1], t[k + 2])[n] = Placed(f, g, k, t[k + 1], t[k + 2], n)
    BY <1>2 DEF Piece
  <2> QED BY <1>2, <2>1, <2>2, <2>8, <2>9 DEF Placed
<1> QED BY <1>3, <1>4

\* Every text is a sequence of characters.
LEMMA TextTypes ==
  ASSUME NEW f \in Str, NEW g \in Seq(Arg)
  PROVE  \A k \in 1..(Len(f) + 2) : \A n \in 1..(Len(g) + 1) :
            Texts(f, g)[k][n] \in Seq(Nat)
<1> DEFINE t == Texts(f, g)
           Top == Len(f) + 2
           Good(k) == \A n \in 1..(Len(g) + 1) : t[k][n] \in Seq(Nat)
           T == {m \in 0..(Top - 1) : ~ Good(Top - m)}
<1>1. Len(f) \in Nat /\ Top \in Nat /\ Top = Len(f) + 2 /\ Len(g) \in Nat BY DEF Str
<1>2. SUFFICES ASSUME T # {} PROVE FALSE
  <2>1. SUFFICES ASSUME NEW k \in 1..Top PROVE Good(k) OBVIOUS
  <2>2. Top - k \in 0..(Top - 1) /\ Top - (Top - k) = k BY <1>1
  <2> HIDE DEF Good
  <2> QED BY <2>2
<1>3. PICK m \in T : \A k \in T : m <= k
  <2>1. T \subseteq Nat BY <1>1
  <2> HIDE DEF T
  <2> QED BY <1>2, <2>1, Least
<1> DEFINE k == Top - m
<1>4. m \in Nat /\ k \in 1..Top /\ ~ Good(k) /\ m = Top - k BY <1>1
<1>5. \A l \in 1..Top : l > k => Good(l)
  <2> SUFFICES ASSUME NEW l \in 1..Top, l > k PROVE Good(l) OBVIOUS
  <2>1. Top - l \in 0..(Top - 1) /\ Top - (Top - l) = l /\ Top - l < m BY <1>1, <1>4
  <2> HIDE DEF Good, k
  <2> QED BY <1>3, <1>1, <1>4, <2>1
<1> HIDE DEF k
<1>6. PICK n \in 1..(Len(g) + 1) : t[k][n] \notin Seq(Nat) BY <1>4
<1>7. CASE k > Len(f)
  <2>1. t[k][n] = <<>> BY <1>4, <1>7, TextEnd
  <2> QED BY <1>6, <2>1
<1>8. CASE ~ (k > Len(f))
  <2>1. k \in 1..Len(f) /\ k + 1 \in 1..Top /\ k + 2 \in 1..Top /\ k + 1 > k /\ k + 2 > k
    BY <1>1, <1>4, <1>8
  <2>2. Good(k + 1) /\ Good(k + 2)
    <3> HIDE DEF Good
    <3> QED BY <1>5, <2>1
  <2>3. f[k] \in Nat BY <2>1, ElementOfSeq DEF Str
  <2> HIDE DEF Top
  <2>4. CASE f[k] # Percent
    <3>1. t[k][n] = <<f[k]>> \o t[k + 1][n] BY <2>1, <2>4, TextOrdinary
    <3>2. <<f[k]>> \in Seq(Nat) /\ t[k + 1][n] \in Seq(Nat) BY <2>2, <2>3
    <3> HIDE DEF t
    <3> QED BY <1>6, <3>1, <3>2, ConcatProperties
  <2>5. CASE f[k] = Percent /\ CharOf(f, k + 1) = Percent
    <3>1. t[k][n] = <<Percent>> \o t[k + 2][n] BY <2>1, <2>5, TextTwo
    <3>2. <<Percent>> \in Seq(Nat) /\ t[k + 2][n] \in Seq(Nat) BY <2>2 DEF Percent
    <3> HIDE DEF t
    <3> QED BY <1>6, <3>1, <3>2, ConcatProperties
  <2>6. CASE f[k] = Percent /\ CharOf(f, k + 1) \in Codes
    <3>1. PICK l \in DOMAIN Ord : CharOf(f, k + 1) = Ord[l] BY <2>6, Letters
    <3>2. CASE n = Len(g) + 1
      <4>1. t[k][n] = <<>> BY <2>1, <2>6, <3>1, <3>2, TextWaits
      <4> QED BY <1>6, <4>1
    <3>3. CASE n # Len(g) + 1
      <4>1. n \in 1..Len(g) /\ n + 1 \in 1..(Len(g) + 1) BY <1>1, <3>3
      <4>2. t[k][n] = Spelled(g[n]) \o t[k + 2][n + 1]
        BY <2>1, <2>6, <3>1, <4>1, TextArg
      <4>3. g[n] \in Arg BY <4>1, ElementOfSeq
      <4>4. Spelled(g[n]) \in Seq(Nat) BY <4>3, ArgSpelled
      <4>5. t[k + 2][n + 1] \in Seq(Nat) BY <2>2, <4>1
      <4> HIDE DEF t
      <4> QED BY <1>6, <4>2, <4>4, <4>5, ConcatProperties
    <3> QED BY <3>2, <3>3
  <2>7. CASE f[k] = Percent /\ CharOf(f, k + 1) # Percent /\ CharOf(f, k + 1) \notin Codes
    <3>1. t[k][n] = SubSeq(f, k, Len(f)) BY <2>1, <2>7, TextOther
    <3>2. \A l \in k..Len(f) : f[l] \in Nat
      <4> SUFFICES ASSUME NEW l \in k..Len(f) PROVE f[l] \in Nat OBVIOUS
      <4>1. l \in 1..Len(f) BY <2>1, <1>1
      <4> QED BY <4>1, ElementOfSeq DEF Str
    <3>3. SubSeq(f, k, Len(f)) \in Seq(Nat) BY <1>1, <2>1, <3>2, SubSeqProperties
    <3> QED BY <1>6, <3>1, <3>3
  <2> QED BY <2>4, <2>5, <2>6, <2>7
<1> QED BY <1>7, <1>8

LEMMA StrIs ==
  ASSUME NEW f \in Str
  PROVE  /\ f \in Seq(Nat) /\ Len(f) \in Nat
         /\ \A k \in 1..Len(f) : f[k] \in Nat /\ f[k] # 0
<1>1. f \in Seq(Nat) BY SeqMonotonic DEF Str
<1>2. \A k \in 1..Len(f) : f[k] \in Nat \ {0} BY ElementOfSeq DEF Str
<1> QED BY <1>1, <1>2

\* Ordinary characters stand for themselves.
LEMMA TextRun ==
  ASSUME NEW f \in Str, NEW g \in Seq(Arg), NEW n \in 1..(Len(g) + 1),
         NEW to \in 0..Len(f), NEW k \in 1..(to + 1),
         \A l \in k..to : f[l] # Percent
  PROVE  Texts(f, g)[k][n] = SubSeq(f, k, to) \o Texts(f, g)[to + 1][n]
<1> DEFINE t == Texts(f, g)
           Good(l) == t[l][n] = SubSeq(f, l, to) \o t[to + 1][n]
           T == {m \in 0..(to + 1 - k) : ~ Good(to + 1 - m)}
<1>1. /\ f \in Seq(Nat) /\ Len(f) \in Nat /\ to \in Nat /\ to <= Len(f)
      /\ k \in Nat /\ 1 <= k /\ k <= to + 1
  BY StrIs
<1>2. t[to + 1][n] \in Seq(Nat)
  <2>1. to + 1 \in 1..(Len(f) + 2) BY <1>1
  <2> QED BY <2>1, TextTypes
<1>3. SUFFICES ASSUME T # {} PROVE FALSE
  <2>1. to + 1 - k \in 0..(to + 1 - k) /\ to + 1 - (to + 1 - k) = k BY <1>1
  <2>2. SUFFICES Good(k) OBVIOUS
  <2> HIDE DEF Good
  <2> QED BY <2>1
<1>4. PICK m \in T : \A l \in T : m <= l
  <2>1. T \subseteq Nat BY <1>1
  <2> HIDE DEF T
  <2> QED BY <1>3, <2>1, Least
<1> DEFINE l == to + 1 - m
<1>5. m \in Nat /\ l \in k..(to + 1) /\ ~ Good(l) /\ m = to + 1 - l /\ l \in Nat
  <2>1. m \in 0..(to + 1 - k) /\ ~ Good(l) OBVIOUS
  <2>2. m \in 0..(to + 1 - k) BY <2>1
  <2>3. m \in Nat /\ l \in k..(to + 1) /\ m = to + 1 - l /\ l \in Nat
    <3> HIDE DEF T, Good
    <3> QED BY <1>1, <2>2
  <2> QED BY <2>1, <2>3
<1>6. CASE l = to + 1
  <2>1. SubSeq(f, l, to) = <<>> BY <1>1, <1>6, SubSeqEmpty
  <2>2. Good(l)
    <3> HIDE DEF t, l
    <3> QED BY <2>1, <1>2, <1>6, ConcatEmptySeq
  <2> QED BY <1>5, <2>2
<1>7. CASE l # to + 1
  <2>1. /\ l \in k..to /\ l \in 1..Len(f) /\ to \in l..Len(f) /\ l + 1 \in k..(to + 1)
        /\ m - 1 \in 0..(to + 1 - k) /\ to + 1 - (m - 1) = l + 1 /\ m - 1 < m
    BY <1>1, <1>5, <1>7
  <2>2. Good(l + 1)
    <3>1. m - 1 \notin T
      <4> HIDE DEF T, l
      <4> QED BY <1>4, <1>5, <2>1
    <3> HIDE DEF Good, l
    <3> QED BY <2>1, <3>1
  <2> HIDE DEF l
  <2>3. t[l][n] = <<f[l]>> \o t[l + 1][n] BY <2>1, TextOrdinary
  <2>4. SubSeq(f, l, to) = <<f[l]>> \o SubSeq(f, l + 1, to)
    BY <1>1, <2>1, SubSeqRecursiveFirst
  <2>5. <<f[l]>> \in Seq(Nat) BY <2>1, StrIs
  <2>6. SubSeq(f, l + 1, to) \in Seq(Nat)
    <3>1. \A x \in (l + 1)..to : f[x] \in Nat
      <4> SUFFICES ASSUME NEW x \in (l + 1)..to PROVE f[x] \in Nat OBVIOUS
      <4>1. x \in 1..Len(f) BY <1>1, <2>1
      <4> QED BY <4>1, StrIs
    <3>2. l + 1 \in Int /\ to \in Int BY <1>1, <2>1
    <3> QED BY <3>1, <3>2, SubSeqProperties
  <2>7. Good(l)
    <3> DEFINE s1 == SubSeq(f, l + 1, to)
               s2 == t[to + 1][n]
    <3>1. t[l][n] = <<f[l]>> \o (s1 \o s2) BY <2>2, <2>3
    <3>2. SubSeq(f, l, to) \o s2 = (<<f[l]>> \o s1) \o s2 BY <2>4
    <3>3. s1 \in Seq(Nat) /\ s2 \in Seq(Nat) BY <2>6, <1>2
    <3> HIDE DEF s1, s2
    <3>4. (<<f[l]>> \o s1) \o s2 = <<f[l]>> \o (s1 \o s2) BY <2>5, <3>3, ConcatAssociative
    <3>5. t[l][n] = SubSeq(f, l, to) \o s2 BY <3>1, <3>2, <3>4
    <3> QED BY <3>5 DEF s2
  <2> QED BY <1>5, <2>7
<1> QED BY <1>6, <1>7

------------------------------------------------------------------------------
(***************************************************************************)
(* What is printed, and what is ahead.                                     *)

\* g begins with the arguments s.
Extends(s, g) == Len(s) <= Len(g) /\ \A k \in 1..Len(s) : g[k] = s[k]

\* Whatever arguments follow, from k and the n-th of them on there is w, and
\* then what is left at k2 and n2.
Stands(f, s, k, n, w, k2, n2) ==
  \A g \in Seq(Arg) : Extends(s, g) => Texts(f, g)[k][n] = w \o Texts(f, g)[k2][n2]

\* Whatever arguments follow, o is printed and the text from k and n on is not.
Ahead(f, s, o, k, n) == Stands(f, s, 1, 1, o, k, n)

LEMMA ExtendsSelf == ASSUME NEW s PROVE Extends(s, s) BY DEF Extends

LEMMA ExtendsMore ==
  ASSUME NEW s \in Seq(Arg), NEW a \in Arg, NEW g \in Seq(Arg), Extends(Append(s, a), g)
  PROVE  Extends(s, g) /\ g[Len(s) + 1] = a /\ Len(g) >= Len(s) + 1
<1>1. /\ Len(Append(s, a)) = Len(s) + 1 /\ Len(s) \in Nat /\ Len(g) \in Nat
      /\ \A k \in 1..Len(s) : Append(s, a)[k] = s[k]
      /\ Append(s, a)[Len(s) + 1] = a
  BY AppendProperties
<1>2. /\ Len(s) + 1 <= Len(g) /\ \A k \in 1..(Len(s) + 1) : g[k] = Append(s, a)[k]
  BY <1>1 DEF Extends
<1>3. \A k \in 1..Len(s) : k \in 1..(Len(s) + 1) BY <1>1
<1>4. Len(s) + 1 \in 1..(Len(s) + 1) BY <1>1
<1> QED BY <1>1, <1>2, <1>3, <1>4 DEF Extends

LEMMA StandsMore ==
  ASSUME NEW f, NEW s \in Seq(Arg), NEW a \in Arg, NEW k, NEW n, NEW w, NEW k2, NEW n2,
         Stands(f, s, k, n, w, k2, n2)
  PROVE  Stands(f, Append(s, a), k, n, w, k2, n2)
<1> SUFFICES ASSUME NEW g \in Seq(Arg), Extends(Append(s, a), g)
             PROVE  Texts(f, g)[k][n] = w \o Texts(f, g)[k2][n2]
  BY DEF Stands
<1>1. Extends(s, g) BY ExtendsMore
<1> QED BY <1>1 DEF Stands

\* Nothing is printed yet.
LEMMA AheadStart ==
  ASSUME NEW f \in Str
  PROVE  Ahead(f, <<>>, <<>>, 1, 1)
<1> SUFFICES ASSUME NEW g \in Seq(Arg)
             PROVE  Texts(f, g)[1][1] = <<>> \o Texts(f, g)[1][1]
  BY DEF Ahead, Stands
<1>1. 1 \in 1..(Len(f) + 2) /\ 1 \in 1..(Len(g) + 1) BY StrIs
<1>2. Texts(f, g)[1][1] \in Seq(Nat) BY <1>1, TextTypes
<1> QED BY <1>2, ConcatEmptySeq

\* A place in the text.
Place(f, s, k, n) == k \in 1..(Len(f) + 2) /\ n \in 1..(Len(s) + 1)

LEMMA PlaceIs ==
  ASSUME NEW f \in Str, NEW s \in Seq(Arg), NEW g \in Seq(Arg), Extends(s, g),
         NEW k, NEW n, Place(f, s, k, n)
  PROVE  /\ k \in 1..(Len(f) + 2) /\ n \in 1..(Len(g) + 1)
         /\ Texts(f, g)[k][n] \in Seq(Nat)
<1>1. k \in 1..(Len(f) + 2) /\ n \in 1..(Len(s) + 1) BY DEF Place
<1>2. Len(s) <= Len(g) /\ Len(s) \in Nat /\ Len(g) \in Nat BY DEF Extends
<1>3. n \in 1..(Len(g) + 1) BY <1>1, <1>2
<1> QED BY <1>1, <1>3, TextTypes

LEMMA Associative ==
  ASSUME NEW u \in Seq(Nat), NEW v \in Seq(Nat), NEW w \in Seq(Nat)
  PROVE  (u \o v) \o w = u \o (v \o w)
<1> DEFINE a == (u \o v) \o w
           b == u \o (v \o w)
<1>1. /\ u \o v \in Seq(Nat) /\ Len(u \o v) = Len(u) + Len(v)
      /\ v \o w \in Seq(Nat) /\ Len(v \o w) = Len(v) + Len(w)
      /\ Len(u) \in Nat /\ Len(v) \in Nat /\ Len(w) \in Nat
  BY ConcatProperties, LenProperties
<1>2. a \in Seq(Nat) /\ b \in Seq(Nat) BY <1>1, ConcatProperties
<1>3. Len(a) = Len(u) + Len(v) + Len(w) /\ Len(b) = Len(a) BY <1>1, ConcatProperties
<1>4. ASSUME NEW k \in 1..Len(a) PROVE a[k] = b[k]
  BY <1>1, <1>3
<1> HIDE DEF a, b
<1>5. a = b BY <1>2, <1>3, <1>4, SeqEqual
<1> QED BY <1>5 DEF a, b

\* What stands next is printed.
LEMMA AheadOn ==
  ASSUME NEW f \in Str, NEW s \in Seq(Arg), NEW o \in Seq(Nat), NEW w \in Seq(Nat),
         NEW k, NEW n, NEW k2, NEW n2, Place(f, s, k2, n2),
         Ahead(f, s, o, k, n), Stands(f, s, k, n, w, k2, n2)
  PROVE  Ahead(f, s, o \o w, k2, n2)
<1> SUFFICES ASSUME NEW g \in Seq(Arg), Extends(s, g)
             PROVE  Texts(f, g)[1][1] = (o \o w) \o Texts(f, g)[k2][n2]
  BY DEF Ahead, Stands
<1> DEFINE t2 == Texts(f, g)[k2][n2]
<1>1. t2 \in Seq(Nat) BY PlaceIs
<1>2. Texts(f, g)[1][1] = o \o (w \o t2) BY DEF Ahead, Stands
<1> HIDE DEF t2
<1>3. (o \o w) \o t2 = o \o (w \o t2) BY <1>1, Associative
<1>4. Texts(f, g)[1][1] = (o \o w) \o t2 BY <1>2, <1>3
<1> QED BY <1>4 DEF t2

\* What is printed begins the text; with w after it it is no longer than that.
LEMMA AheadBegins ==
  ASSUME NEW f \in Str, NEW s \in Seq(Arg), NEW o \in Seq(Nat), NEW w \in Seq(Nat),
         NEW k, NEW n, NEW k2, NEW n2, Place(f, s, k2, n2),
         Ahead(f, s, o, k, n), Stands(f, s, k, n, w, k2, n2)
  PROVE  /\ IsPrefix(o, Texts(f, s)[1][1])
         /\ Len(Texts(f, s)[1][1]) \in Nat
         /\ Len(Texts(f, s)[1][1]) >= Len(o) + Len(w)
<1> DEFINE t2 == Texts(f, s)[k2][n2]
           t == Texts(f, s)[1][1]
<1>1. Extends(s, s) BY ExtendsSelf
<1>2. t2 \in Seq(Nat) BY <1>1, PlaceIs
<1>3. t = o \o (w \o t2) BY <1>1 DEF Ahead, Stands
<1> HIDE DEF t2, t
<1>4. w \o t2 \in Seq(Nat) /\ Len(w \o t2) = Len(w) + Len(t2) BY <1>2, ConcatProperties
<1>5. t \in Seq(Nat) /\ Len(t) = Len(o) + Len(w \o t2) BY <1>3, <1>4, ConcatProperties
<1>6. Len(o) \in Nat /\ Len(w) \in Nat /\ Len(t2) \in Nat /\ Len(t) \in Nat BY <1>2, <1>5
<1>7. Len(t) >= Len(o) + Len(w) BY <1>4, <1>5, <1>6
<1>8. SubSeq(o, 1, Len(o)) = SubSeq(t, 1, Len(o))
  <2>1. CASE Len(o) = 0
    <3>1. SubSeq(o, 1, 0) = <<>> /\ SubSeq(t, 1, 0) = <<>> BY SubSeqEmpty
    <3> QED BY <2>1, <3>1
  <2>2. CASE Len(o) # 0
    <3>1. 1 \in 1..Len(o) /\ Len(o) \in 1..Len(o) BY <1>6, <2>2
    <3>2. SubSeq(o \o (w \o t2), 1, Len(o)) = SubSeq(o, 1, Len(o))
      BY <1>4, <3>1, SubSeqOfConcat1
    <3> QED BY <1>3, <3>2
  <2> QED BY <2>1, <2>2
<1>9. IsPrefix(o, t) BY <1>6, <1>7, <1>8 DEF IsPrefix
<1> QED BY <1>6, <1>7, <1>9 DEF t

\* An argument is written, and the text goes on after its directive.
LEMMA ArgStands ==
  ASSUME NEW f \in Str, NEW s \in Seq(Arg), NEW a \in Arg, NEW k \in 1..Len(f),
         f[k] = Percent, NEW l \in DOMAIN Ord, CharOf(f, k + 1) = Ord[l]
  PROVE  Stands(f, Append(s, a), k, Len(s) + 1, Spelled(a), k + 2, Len(s) + 2)
<1> SUFFICES ASSUME NEW g \in Seq(Arg), Extends(Append(s, a), g)
             PROVE  Texts(f, g)[k][Len(s) + 1] = Spelled(a) \o Texts(f, g)[k + 2][Len(s) + 2]
  BY DEF Stands
<1>1. g[Len(s) + 1] = a /\ Len(g) >= Len(s) + 1 BY ExtendsMore
<1>2. Len(s) \in Nat /\ Len(g) \in Nat OBVIOUS
<1>3. Len(s) + 1 \in 1..Len(g) /\ (Len(s) + 1) + 1 = Len(s) + 2 BY <1>1, <1>2
<1>4. Texts(f, g)[k][Len(s) + 1]
        = Spelled(g[Len(s) + 1]) \o Texts(f, g)[k + 2][(Len(s) + 1) + 1]
  BY <1>3, TextArg
<1> QED BY <1>1, <1>3, <1>4

\* An unknown directive and what follows it are printed as they are.
LEMMA OtherStands ==
  ASSUME NEW f \in Str, NEW s \in Seq(Arg), NEW k \in 1..Len(f), f[k] = Percent,
         CharOf(f, k + 1) # Percent, CharOf(f, k + 1) \notin Codes
  PROVE  /\ Stands(f, s, k, Len(s) + 1, SubSeq(f, k, Len(f)), Len(f) + 1, Len(s) + 1)
         /\ SubSeq(f, k, Len(f)) \in Seq(Nat)
<1> DEFINE w == SubSeq(f, k, Len(f))
<1>1. Len(f) \in Nat BY StrIs
<1>2. w \in Seq(Nat)
  <2>1. \A l \in k..Len(f) : f[l] \in Nat
    <3> SUFFICES ASSUME NEW l \in k..Len(f) PROVE f[l] \in Nat OBVIOUS
    <3>1. l \in 1..Len(f) BY <1>1
    <3> QED BY <3>1, StrIs
  <2> QED BY <1>1, <2>1, SubSeqProperties
<1>3. ASSUME NEW g \in Seq(Arg), Extends(s, g)
      PROVE  Texts(f, g)[k][Len(s) + 1] = w \o Texts(f, g)[Len(f) + 1][Len(s) + 1]
  <2>1. Place(f, s, k, Len(s) + 1) /\ Place(f, s, Len(f) + 1, Len(s) + 1) BY <1>1 DEF Place
  <2>2. Len(s) + 1 \in 1..(Len(g) + 1) BY <1>3, <2>1, PlaceIs
  <2>3. Texts(f, g)[k][Len(s) + 1] = w BY <2>2, TextOther
  <2>4. Len(f) + 1 \in 1..(Len(f) + 2) /\ Len(f) + 1 > Len(f) BY <1>1
  <2>5. Texts(f, g)[Len(f) + 1][Len(s) + 1] = <<>> BY <2>2, <2>4, TextEnd
  <2>6. w \o <<>> = w BY <1>2, ConcatEmptySeq
  <2> HIDE DEF w
  <2> QED BY <2>3, <2>5, <2>6
<1> QED BY <1>2, <1>3 DEF Stands

\* Ordinary characters, after a '%' that stands for itself.
LEMMA LiteralStands ==
  ASSUME NEW f \in Str, NEW s \in Seq(Arg), NEW k \in 1..Len(f),
         f[k] # Percent \/ CharOf(f, k + 1) = Percent,
         NEW from, from = (IF f[k] = Percent THEN k + 1 ELSE k),
         NEW to \in from..Len(f), \A l \in (from + 1)..to : f[l] # Percent
  PROVE  /\ Stands(f, s, k, Len(s) + 1, SubSeq(f, from, to), to + 1, Len(s) + 1)
         /\ SubSeq(f, from, to) \in Seq(Nat)
<1> DEFINE w == SubSeq(f, from, to)
<1>1. /\ f \in Seq(Nat) /\ Len(f) \in Nat /\ k \in Nat /\ from \in Nat
      /\ from \in 1..Len(f) /\ to \in Nat /\ to <= Len(f) /\ from <= to
      /\ to \in from..Len(f) /\ to \in 0..Len(f)
  <2>1. f \in Seq(Nat) /\ Len(f) \in Nat /\ k \in Nat /\ 1 <= k BY StrIs
  <2>2. from = k \/ from = k + 1 OBVIOUS
  <2> QED BY <2>1, <2>2
<1>2. \A x \in from..to : f[x] \in Nat
  <2> SUFFICES ASSUME NEW x \in from..to PROVE f[x] \in Nat OBVIOUS
  <2>1. x \in 1..Len(f) BY <1>1
  <2> QED BY <2>1, StrIs
<1>3. w \in Seq(Nat) BY <1>1, <1>2, SubSeqProperties
<1>4. ASSUME NEW g \in Seq(Arg), Extends(s, g)
      PROVE  Texts(f, g)[k][Len(s) + 1] = w \o Texts(f, g)[to + 1][Len(s) + 1]
  <2> DEFINE n == Len(s) + 1
  <2>1. Place(f, s, k, n) /\ Place(f, s, to + 1, n) BY <1>1 DEF Place
  <2>2. n \in 1..(Len(g) + 1) /\ Texts(f, g)[to + 1][n] \in Seq(Nat)
    BY <1>4, <2>1, PlaceIs
  <2> HIDE DEF n
  <2>3. CASE f[k] # Percent
    <3>1. from = k BY <2>3
    <3>2. \A l \in from..to : f[l] # Percent
      <4> SUFFICES ASSUME NEW l \in from..to PROVE f[l] # Percent OBVIOUS
      <4>1. l = from \/ l \in (from + 1)..to BY <1>1
      <4> QED BY <2>3, <3>1, <4>1
    <3>3. k \in 1..(to + 1) BY <1>1, <3>1
    <3>4. Texts(f, g)[k][n] = SubSeq(f, k, to) \o Texts(f, g)[to + 1][n]
      BY <1>1, <2>2, <3>1, <3>2, <3>3, TextRun
    <3> QED BY <3>1, <3>4 DEF n
  <2>4. CASE f[k] = Percent
    <3>1. from = k + 1 /\ CharOf(f, from) = Percent BY <2>4
    <3>2. f[from] = Percent BY <1>1, <3>1 DEF CharOf
    <3>3. Texts(f, g)[k][n] = <<Percent>> \o Texts(f, g)[k + 2][n]
      BY <2>2, <2>4, <3>1, TextTwo
    <3>4. from + 1 \in 1..(to + 1) /\ k + 2 = from + 1 BY <1>1, <3>1
    <3>5. Texts(f, g)[from + 1][n] = SubSeq(f, from + 1, to) \o Texts(f, g)[to + 1][n]
      <4>1. PICK l \in {from + 1} : l = from + 1 OBVIOUS
      <4>2. l \in 1..(to + 1) /\ \A x \in l..to : f[x] # Percent BY <3>4, <4>1
      <4>3. Texts(f, g)[l][n] = SubSeq(f, l, to) \o Texts(f, g)[to + 1][n]
        BY <1>1, <2>2, <4>2, TextRun
      <4> QED BY <4>1, <4>3
    <3>6. w = <<f[from]>> \o SubSeq(f, from + 1, to) BY <1>1, SubSeqRecursiveFirst
    <3>7. SubSeq(f, from + 1, to) \in Seq(Nat)
      <4>1. \A x \in (from + 1)..to : f[x] \in Nat
        <5> SUFFICES ASSUME NEW x \in (from + 1)..to PROVE f[x] \in Nat OBVIOUS
        <5>1. x \in from..to BY <1>1
        <5> QED BY <5>1, <1>2
      <4>2. from + 1 \in Int /\ to \in Int BY <1>1
      <4> QED BY <4>1, <4>2, SubSeqProperties
    <3> DEFINE v == SubSeq(f, from + 1, to)
               t2 == Texts(f, g)[to + 1][n]
    <3>8. <<Percent>> \in Seq(Nat) BY DEF Percent
    <3>9. Texts(f, g)[k][n] = <<Percent>> \o (v \o t2) BY <3>3, <3>4, <3>5
    <3>10. w \o t2 = (<<Percent>> \o v) \o t2 BY <3>2, <3>6
    <3>11. v \in Seq(Nat) /\ t2 \in Seq(Nat) BY <3>7, <2>2
    <3> HIDE DEF w, v, t2
    <3>12. Texts(f, g)[k][n] = w \o t2 BY <3>8, <3>9, <3>10, <3>11, Associative
    <3> QED BY <3>12 DEF t2, n
  <2> QED BY <2>3, <2>4
<1> QED BY <1>3, <1>4 DEF Stands

\* The end of the ordinary characters.
LEMMA LiteralEnds ==
  ASSUME NEW f \in Str, NEW from \in 1..Len(f), NEW to,
         to = CHOOSE k \in from..Len(f) :
                 /\ CharOf(f, k + 1) \in {0, Percent}
                 /\ \A l \in (from + 1)..k : CharOf(f, l) # Percent
  PROVE  to \in from..Len(f) /\ \A l \in (from + 1)..to : f[l] # Percent
<1> DEFINE T == {k \in from..Len(f) : CharOf(f, k + 1) \in {0, Percent}}
           End0(k) == /\ CharOf(f, k + 1) \in {0, Percent}
                      /\ \A l \in (from + 1)..k : CharOf(f, l) # Percent
<1>1. Len(f) \in Nat /\ from \in Nat /\ from <= Len(f) BY StrIs
<1>2. T # {} /\ T \subseteq Nat
  <2>1. CharOf(f, Len(f) + 1) = 0 BY <1>1 DEF CharOf
  <2>2. Len(f) \in T BY <1>1, <2>1
  <2> QED BY <1>1, <2>2
<1>3. PICK k \in T : \A l \in T : k <= l
  <2> HIDE DEF T
  <2> QED BY <1>2, Least
<1>4. k \in from..Len(f) /\ k \in Nat OBVIOUS
<1>5. ASSUME NEW l \in (from + 1)..k PROVE CharOf(f, l) # Percent
  <2>1. l - 1 \in from..Len(f) /\ l - 1 < k /\ (l - 1) + 1 = l BY <1>1, <1>4
  <2>2. l - 1 \notin T
    <3> HIDE DEF T
    <3> QED BY <1>3, <1>4, <2>1
  <2> QED BY <2>1, <2>2
<1>6. End0(k) BY <1>4, <1>5
<1>7. to \in from..Len(f) /\ End0(to)
  <2>1. to = CHOOSE x \in from..Len(f) : End0(x) BY Zenon
  <2> HIDE DEF End0
  <2> QED BY <1>4, <1>6, <2>1, Zenon
<1>8. ASSUME NEW l \in (from + 1)..to PROVE f[l] # Percent
  <2>1. l <= Len(f) BY <1>1, <1>7
  <2>2. CharOf(f, l) # Percent BY <1>7
  <2> QED BY <2>1, <2>2 DEF CharOf
<1> QED BY <1>7, <1>8

\* The directives with a prefix.
LEMMA PrefixedIs ==
  ASSUME NEW s \in Seq(Arg)
  PROVE  /\ Prefixed(s) \in Nat
         /\ \A a \in Arg : Prefixed(Append(s, a))
                             = Prefixed(s) + (IF Hexadecimal(a) THEN 1 ELSE 0)
<1> DEFINE P(g) == {k \in DOMAIN g : g[k][1] \in {"x", "X"}}
<1>1. Len(s) \in Nat /\ DOMAIN s = 1..Len(s) BY LenProperties
<1>2. IsFiniteSet(P(s))
  <2>1. IsFiniteSet(1..Len(s)) BY <1>1, FS_Interval
  <2>2. P(s) \subseteq 1..Len(s) BY <1>1
  <2> QED BY <2>1, <2>2, FS_Subset
<1>3. Prefixed(s) \in Nat BY <1>2, FS_CardinalityType DEF Prefixed
<1>4. ASSUME NEW a \in Arg
      PROVE  Prefixed(Append(s, a)) = Prefixed(s) + (IF Hexadecimal(a) THEN 1 ELSE 0)
  <2> DEFINE g == Append(s, a)
  <2>1. /\ g \in Seq(Arg) /\ Len(g) = Len(s) + 1
        /\ \A k \in 1..Len(s) : g[k] = s[k]
        /\ g[Len(s) + 1] = a
    BY AppendProperties
  <2> HIDE DEF g
  <2>2. DOMAIN g = 1..(Len(s) + 1) BY <2>1, LenProperties
  <2>3. CASE Hexadecimal(a)
    <3>1. P(g) = P(s) \cup {Len(s) + 1} BY <1>1, <2>1, <2>2, <2>3 DEF Hexadecimal
    <3>2. Len(s) + 1 \notin P(s) BY <1>1
    <3>3. Cardinality(P(g)) = Cardinality(P(s)) + 1
      <4> HIDE DEF P
      <4> QED BY <1>2, <3>1, <3>2, FS_AddElement
    <3> QED BY <2>3, <3>3 DEF Prefixed, g
  <2>4. CASE ~ Hexadecimal(a)
    <3>1. P(g) = P(s) BY <1>1, <2>1, <2>2, <2>4 DEF Hexadecimal
    <3>2. Prefixed(g) = Prefixed(s) BY <3>1 DEF Prefixed
    <3>3. (IF Hexadecimal(a) THEN 1 ELSE 0) = 0 BY <2>4
    <3> QED BY <1>3, <3>2, <3>3 DEF g
  <2> QED BY <2>3, <2>4
<1> QED BY <1>3, <1>4

------------------------------------------------------------------------------
(***************************************************************************)
(* The conversion of a number.                                             *)

Conversion == [value : Nat, base : Nat, size : Nat, alpha : Nat, prefix : Seq(Nat),
               start : Nat, buffer : Seq(Nat), i : Int, j : Int]

\* What the loops leave alone, with the sign that stands before the digits.
Fixed(c, a) ==
  /\ c \in Conversion
  /\ c.base = Base(a) /\ c.size = Size(a) /\ c.alpha = Alpha(a) /\ c.prefix = Lead(a)
  /\ c.start = Len(Sign(a)) /\ c.start <= Len(c.buffer)
  /\ \A k \in 1..c.start : c.buffer[k] = Sign(a)[k]

\* The digits of the value are still to come; the others are in the buffer, the
\* last one first.
Rest(c, a) == Numeral(c.value, Base(a), Glyphs(a))
DigitsInv(c, a) ==
  /\ c.value \in 0..UINT_MAX
  /\ Len(Rest(c, a)) + (Len(c.buffer) - c.start) = Len(Digits(a))
  /\ \A l \in 1..Len(Rest(c, a)) : Rest(c, a)[l] = Digits(a)[l]
  /\ \A l \in 1..(Len(c.buffer) - c.start) :
        c.buffer[c.start + l] = Digits(a)[Len(Digits(a)) + 1 - l]

\* The digits outside of i and j are in their order, those between them are not.
ReverseInv(c, a) ==
  /\ Len(c.buffer) = c.start + Len(Digits(a))
  /\ c.start <= c.i /\ c.i <= c.j /\ c.i + c.j = 2 * c.start + Len(Digits(a))
  /\ \A l \in 1..Len(Digits(a)) :
        c.buffer[c.start + l] =
          Digits(a)[IF c.start + l <= c.i \/ c.start + l > c.j
                    THEN l ELSE Len(Digits(a)) + 1 - l]

\* What the loop makes of its last digit.
Shortened(c) ==
  [c EXCEPT !.value = c.value \div c.base,
            !.buffer = Append(c.buffer, (c.value % c.base) +
                         (IF c.value % c.base > 9 THEN c.alpha ELSE 48)),
            !.i = c.start, !.j = Len(c.buffer) + 1]

LEMMA Shorter ==
  ASSUME NEW a \in NumArg, NEW c, Fixed(c, a), DigitsInv(c, a)
  PROVE  /\ Len(c.buffer) < c.size
         /\ Fixed(Shortened(c), a)
         /\ c.value \div c.base = 0 => ReverseInv(Shortened(c), a)
         /\ c.value \div c.base # 0 => DigitsInv(Shortened(c), a)
<1> DEFINE b == Base(a)
           F == Glyphs(a)
           D == Digits(a)
           N == Rest(c, a)
           v == c.value
           q == v \div b
           x == F[(v % b) + 1]
           d == Shortened(c)
           n == Len(c.buffer)
           s == c.start
<1>1. /\ b \in {10, 16} /\ F \in Seq(Nat) /\ Len(F) >= b /\ Figured(F, b, Alpha(a)) BY GlyphsIs
<1>2. /\ D \in Seq(Nat) /\ Len(D) \in Nat /\ Len(Sign(a)) + Len(D) <= Size(a) /\ Size(a) \in Nat
  BY DigitsAre
<1>3. /\ c \in Conversion /\ c.base = b /\ c.size = Size(a) /\ c.alpha = Alpha(a)
      /\ s = Len(Sign(a)) /\ s <= n /\ n \in Nat /\ s \in Nat /\ c.buffer \in Seq(Nat)
  BY DEF Fixed, Conversion
<1>4. v \in 0..UINT_MAX /\ v \in Nat /\ Len(N) + (n - s) = Len(D) BY Bounds DEF DigitsInv
<1>5. N \in Seq(Nat) /\ Len(N) \in Nat /\ Len(N) >= 1
  <2>1. N \in Seq(Nat) /\ Len(N) >= 1 BY <1>1, <1>4, NumeralTypes DEF Rest
  <2> HIDE DEF N
  <2> QED BY <2>1
<1>6. N = Digited(Numeral(q, b, F), v, b, F) BY <1>1, <1>4, NumeralIs DEF Rest
<1>7. /\ q \in Nat /\ v % b \in Nat /\ v % b < b /\ (v < b => q = 0 /\ v % b = v)
      /\ (v >= b => 1 <= q /\ q < v) /\ b \in Nat
  <2> HIDE DEF b, v
  <2>1. b \in {10, 16} /\ v \in Nat BY <1>1, <1>4
  <2>2. b \in Nat BY <2>1
  <2> QED BY <2>1, <2>2, DivIs
<1>8. x \in Nat /\ x = (v % b) + (IF v % b > 9 THEN Alpha(a) ELSE 48)
  <2>1. (v % b) + 1 \in 1..Len(F) BY <1>1, <1>7
  <2>2. x \in Nat BY <1>1, <2>1, ElementOfSeq
  <2> HIDE DEF b, F, v
  <2> QED BY <2>2, <1>1, <1>7 DEF Figured
<1>9. q \in 0..UINT_MAX BY <1>4, <1>7, Bounds
<1>10. /\ d \in Conversion /\ d.value = q /\ d.i = s /\ d.j = n + 1 /\ d.start = s
       /\ d.base = c.base /\ d.size = c.size /\ d.alpha = c.alpha /\ d.prefix = c.prefix
       /\ d.buffer = Append(c.buffer, x)
  <2> DEFINE y == (v % c.base) + (IF v % c.base > 9 THEN c.alpha ELSE 48)
  <2>1. y = x /\ v \div c.base = q BY <1>3, <1>8
  <2>2. Append(c.buffer, x) \in Seq(Nat) BY <1>3, <1>8, AppendProperties
  <2>3. d = [c EXCEPT !.value = q, !.buffer = Append(c.buffer, x), !.i = s, !.j = n + 1]
    BY <2>1 DEF Shortened
  <2>4. q \in Nat /\ s \in Int /\ n + 1 \in Int BY <1>3, <1>7
  <2> HIDE DEF q, x, s, n, d
  <2> QED BY <1>3, <2>2, <2>3, <2>4 DEF Conversion, s
<1>11. /\ Len(d.buffer) = n + 1 /\ d.buffer[n + 1] = x
       /\ \A l \in 1..n : d.buffer[l] = c.buffer[l]
  BY <1>3, <1>8, <1>10, AppendProperties
<1>12. Len(c.buffer) < c.size BY <1>2, <1>3, <1>4, <1>5
<1>13. Fixed(d, a)
  <2>1. \A k \in 1..s : d.buffer[k] = Sign(a)[k]
    <3> SUFFICES ASSUME NEW k \in 1..s PROVE d.buffer[k] = Sign(a)[k] OBVIOUS
    <3>1. k \in 1..n BY <1>3
    <3>2. c.buffer[k] = Sign(a)[k] BY DEF Fixed
    <3> QED BY <1>11, <3>1, <3>2
  <2>2. s <= n + 1 BY <1>3
  <2>3. c.prefix = Lead(a) BY DEF Fixed
  <2> HIDE DEF d
  <2> QED BY <1>3, <1>10, <1>11, <2>1, <2>2, <2>3 DEF Fixed
<1>14. N[Len(N)] = x
  <2>1. CASE v < b
    <3>1. N = <<F[v + 1]>> /\ v % b = v BY <1>6, <1>7, <2>1 DEF Digited
    <3> HIDE DEF N
    <3>2. Len(N) = 1 /\ N[1] = F[v + 1] BY <3>1
    <3> QED BY <3>1, <3>2
  <2>2. CASE ~ (v < b)
    <3>1. N = Append(Numeral(q, b, F), x) BY <1>6, <2>2 DEF Digited
    <3>2. Numeral(q, b, F) \in Seq(Nat) BY <1>1, <1>9, NumeralTypes
    <3> HIDE DEF N, x
    <3> QED BY <3>1, <3>2, <1>8, AppendProperties
  <2> QED BY <2>1, <2>2
<1>15. \A l \in 1..Len(N) : N[l] = D[l] BY DEF DigitsInv
<1>16. \A l \in 1..(n - s) : c.buffer[s + l] = D[Len(D) + 1 - l] BY DEF DigitsInv
<1> DEFINE LD == Len(D)
           LN == Len(N)
<1> HIDE DEF N, D, x, d, n, s, v, b, F
<1>0. /\ n \in Nat /\ s \in Nat /\ LD \in Nat /\ LN \in Nat
      /\ s <= n /\ 1 <= LN /\ LN + n = LD + s
  <2>1. n \in Nat /\ s \in Nat /\ s <= n BY <1>3
  <2>2. LD \in Nat /\ LN \in Nat /\ 1 <= LN BY <1>2, <1>5
  <2>3. LN + (n - s) = LD BY <1>4
  <2> HIDE DEF LD, LN
  <2> QED BY <2>1, <2>2, <2>3
<1>17. \A l \in 1..(n + 1 - s) : d.buffer[s + l] = D[Len(D) + 1 - l]
  <2> SUFFICES ASSUME NEW l \in 1..(n + 1 - s) PROVE d.buffer[s + l] = D[Len(D) + 1 - l] OBVIOUS
  <2>1. CASE l = n + 1 - s
    <3>1. s + l = n + 1 /\ Len(D) + 1 - l = Len(N) /\ Len(N) \in 1..Len(N)
      <4>1. s + l = n + 1 /\ LD + 1 - l = LN /\ LN \in 1..LN
        <5> HIDE DEF LD, LN
        <5> QED BY <1>0, <2>1
      <4> QED BY <4>1
    <3> QED BY <1>11, <1>14, <1>15, <3>1
  <2>2. CASE l # n + 1 - s
    <3>1. l \in 1..(n - s) /\ s + l \in 1..n BY <1>3, <2>2
    <3> QED BY <1>11, <1>16, <3>1
  <2> QED BY <2>1, <2>2
<1>18. ASSUME q = 0 PROVE ReverseInv(d, a)
  <2>1. v < b BY <1>4, <1>7, <1>18
  <2>2. Len(N) = 1 BY <1>1, <1>4, <2>1, NumeralTypes DEF N, Rest, v, b, F
  <2>3. n + 1 = s + LD
    <3>1. LN = 1 BY <2>2
    <3> HIDE DEF LD, LN
    <3> QED BY <1>0, <3>1
  <2>4. ASSUME NEW l \in 1..Len(D)
        PROVE  /\ ~ (s + l <= s \/ s + l > n + 1)
               /\ d.buffer[s + l] = D[Len(D) + 1 - l]
    <3>1. l \in 1..(n + 1 - s) /\ ~ (s + l <= s \/ s + l > n + 1)
      <4>1. l \in 1..LD OBVIOUS
      <4> HIDE DEF LD, LN
      <4> QED BY <1>0, <2>3, <4>1
    <3> QED BY <1>17, <3>1
  <2>5. s <= s /\ s <= n + 1 /\ s + (n + 1) = 2 * s + Len(D)
    <3>1. s <= s /\ s <= n + 1 /\ s + (n + 1) = 2 * s + LD
      <4> HIDE DEF LD, LN
      <4> QED BY <1>0, <2>3
    <3> QED BY <3>1
  <2> QED BY <1>10, <1>11, <2>3, <2>4, <2>5 DEF ReverseInv, D
<1>19. ASSUME q # 0 PROVE DigitsInv(d, a)
  <2>1. ~ (v < b) /\ v >= b BY <1>4, <1>7, <1>19
  <2>2. N = Append(Numeral(q, b, F), x) BY <1>6, <2>1 DEF Digited, x
  <2>3. Numeral(q, b, F) \in Seq(Nat) BY <1>1, <1>9, NumeralTypes
  <2>4. Rest(d, a) = Numeral(q, b, F) BY <1>10 DEF Rest, b, F
  <2> DEFINE M == Numeral(q, b, F)
  <2> HIDE DEF M
  <2>5. /\ Len(N) = Len(M) + 1 /\ Len(M) \in Nat
        /\ \A l \in 1..Len(M) : N[l] = M[l]
    BY <2>2, <2>3, <1>8, AppendProperties DEF M
  <2>6. Len(M) + (n + 1 - s) = Len(D)
    <3>1. LN = Len(M) + 1 BY <2>5
    <3>2. Len(M) + (n + 1 - s) = LD
      <4> HIDE DEF LD, LN
      <4> QED BY <1>0, <2>5, <3>1
    <3> QED BY <3>2
  <2>7. \A l \in 1..Len(M) : M[l] = D[l]
    <3> SUFFICES ASSUME NEW l \in 1..Len(M) PROVE M[l] = D[l] OBVIOUS
    <3>1. l \in 1..Len(N) BY <2>5
    <3> QED BY <1>15, <2>5, <3>1
  <2>8. Rest(d, a) = M BY <2>4 DEF M
  <2>9. /\ d.value \in 0..UINT_MAX
        /\ Len(Rest(d, a)) + (Len(d.buffer) - d.start) = Len(D)
        /\ \A l \in 1..Len(Rest(d, a)) : Rest(d, a)[l] = D[l]
    BY <1>0, <1>9, <1>10, <1>11, <2>6, <2>7, <2>8
  <2>10. \A l \in 1..(Len(d.buffer) - d.start) : d.buffer[d.start + l] = D[Len(D) + 1 - l]
    BY <1>0, <1>10, <1>11, <1>17
  <2> QED BY <2>9, <2>10 DEF DigitsInv, D
<1>20. v \div c.base = q BY <1>3
<1> QED BY <1>12, <1>13, <1>18, <1>19, <1>20 DEF d, v

\* What one exchange makes of the buffer.
Exchanged(c) ==
  [c EXCEPT !.i = c.i + 1, !.j = c.j - 1,
            !.buffer = [c.buffer EXCEPT ![c.i + 1] = c.buffer[(c.j - 1) + 1],
                                        ![(c.j - 1) + 1] = c.buffer[c.i + 1]]]

LEMMA Between ==
  ASSUME NEW u \in Int, NEW v \in Int, NEW s \in Nat, NEW n \in Nat,
         s <= u, u <= v, u + v = 2 * s + n, u < v - 1
  PROVE  /\ s < u + 1 /\ u + 1 < v /\ (u + 1) + v = 2 * s + n + 1 /\ v <= s + n
         /\ u + 1 \in 1..(s + n) /\ v \in 1..(s + n) /\ (v - 1) + 1 = v
         /\ u = (u + 1) - 1
OBVIOUS

\* Two ends that met, and a place after s: it is its own mirror image if it is
\* between them.
Meet(u, v, s, n) == s <= u /\ u <= v /\ u + v = 2 * s + n /\ ~ (u < v - 1)
Mirror(u, v, s, n, k) ==
  /\ k - s \in 1..n /\ s + (k - s) = k
  /\ k <= u \/ k > v \/ n + 1 - (k - s) = k - s

LEMMA Met ==
  ASSUME NEW u \in Int, NEW v \in Int, NEW s \in Nat, NEW n \in Nat, Meet(u, v, s, n),
         NEW k \in Int, s < k, k <= s + n
  PROVE  Mirror(u, v, s, n, k)
<1>1. k - s \in 1..n /\ s + (k - s) = k OBVIOUS
<1>2. ASSUME ~ (k <= u), ~ (k > v) PROVE n + 1 - (k - s) = k - s
  <2>1. k = u + 1 /\ v = u + 1 BY <1>2 DEF Meet
  <2> QED BY <2>1 DEF Meet
<1> QED BY <1>1, <1>2 DEF Mirror

LEMMA ExchangeKeeps ==
  ASSUME NEW a \in NumArg, NEW c, Fixed(c, a), ReverseInv(c, a), c.i < c.j - 1
  PROVE  Fixed(Exchanged(c), a) /\ ReverseInv(Exchanged(c), a)
<1> DEFINE D == Digits(a)
           LD == Len(D)
           s == c.start
           p == c.i + 1
           q == c.j
           B == c.buffer
           d == Exchanged(c)
<1>1. /\ c \in Conversion /\ B \in Seq(Nat) /\ Len(B) \in Nat /\ s \in Nat /\ c.i \in Int /\ q \in Int
  BY DEF Fixed, Conversion
<1>2. D \in Seq(Nat) /\ LD \in Nat BY DigitsAre
<1>3. Len(B) = s + LD /\ s <= c.i /\ c.i <= q /\ c.i + q = 2 * s + LD BY DEF ReverseInv
<1>4. c.i < q - 1 OBVIOUS
<1>5. /\ p \in Int /\ s < p /\ p < q /\ p + q = 2 * s + LD + 1 /\ q <= s + LD
      /\ p \in 1..Len(B) /\ q \in 1..Len(B) /\ (q - 1) + 1 = q /\ c.i = p - 1
  <2> DEFINE u == c.i
  <2>1. u \in Int /\ s <= u /\ u <= q /\ u + q = 2 * s + LD /\ u < q - 1 BY <1>1, <1>3, <1>4
  <2>2. p = u + 1 OBVIOUS
  <2> HIDE DEF LD, s, q, B, u, p
  <2>3. /\ s < u + 1 /\ u + 1 < q /\ (u + 1) + q = 2 * s + LD + 1 /\ q <= s + LD
        /\ u + 1 \in 1..(s + LD) /\ q \in 1..(s + LD) /\ (q - 1) + 1 = q
        /\ u = (u + 1) - 1
    BY <1>1, <1>2, <2>1, Between
  <2>4. p \in Int BY <2>1, <2>2
  <2> QED BY <1>3, <2>2, <2>3, <2>4 DEF u
<1>6. B[p] \in Nat /\ B[q] \in Nat BY <1>1, <1>5, ElementOfSeq
<1> DEFINE C == [B EXCEPT ![p] = B[q], ![q] = B[p]]
<1>7. /\ C \in Seq(Nat) /\ Len(C) = Len(B)
      /\ \A k \in 1..Len(B) : C[k] = IF k = q THEN B[p] ELSE IF k = p THEN B[q] ELSE B[k]
  <2> DEFINE E == [B EXCEPT ![p] = B[q]]
  <2>1. /\ E \in Seq(Nat) /\ Len(E) = Len(B)
        /\ \A k \in 1..Len(B) : E[k] = IF k = p THEN B[q] ELSE B[k]
    <3> DEFINE y == B[q]
    <3>1. y \in Nat /\ p \in 1..Len(B) /\ B \in Seq(Nat) BY <1>1, <1>5, <1>6
    <3> HIDE DEF B, p, q, y
    <3>2. /\ [B EXCEPT ![p] = y] \in Seq(Nat) /\ Len([B EXCEPT ![p] = y]) = Len(B)
          /\ \A k \in 1..Len(B) : [B EXCEPT ![p] = y][k] = IF k = p THEN y ELSE B[k]
      BY <3>1, ExceptSeq
    <3> QED BY <3>2 DEF y
  <2>2. C = [E EXCEPT ![q] = B[p]] OBVIOUS
  <2> HIDE DEF E, C, B, p, q
  <2> QED BY <1>5, <1>6, <2>1, <2>2, ExceptSeq
<1>8. /\ d \in Conversion /\ d.i = p /\ d.j = q - 1 /\ d.start = s /\ d.buffer = C
      /\ d.base = c.base /\ d.size = c.size /\ d.alpha = c.alpha /\ d.prefix = c.prefix
  <2>1. d = [c EXCEPT !.i = p, !.j = q - 1, !.buffer = C] BY <1>5 DEF Exchanged
  <2>2. p \in Int /\ q - 1 \in Int BY <1>1, <1>5
  <2> HIDE DEF d, C, p, q
  <2> QED BY <1>1, <1>7, <2>1, <2>2 DEF Conversion, s
<1>9. \A l \in 1..LD : B[s + l] = D[IF s + l <= c.i \/ s + l > q THEN l ELSE LD + 1 - l]
  BY DEF ReverseInv
<1>10. \A k \in 1..s : B[k] = Sign(a)[k] BY DEF Fixed
<1>11. s = Len(Sign(a)) BY DEF Fixed
<1>12. /\ c.base = Base(a) /\ c.size = Size(a) /\ c.alpha = Alpha(a) /\ c.prefix = Lead(a)
  BY DEF Fixed
<1> HIDE DEF D, s, p, q, B, C, d
<1>13. Fixed(d, a)
  <2>1. \A k \in 1..s : C[k] = Sign(a)[k]
    <3> SUFFICES ASSUME NEW k \in 1..s PROVE C[k] = Sign(a)[k] OBVIOUS
    <3>1. k \in 1..Len(B) /\ k # p /\ k # q
      <4> HIDE DEF LD
      <4> QED BY <1>1, <1>2, <1>3, <1>5
    <3> QED BY <1>7, <1>10, <3>1
  <2>2. s <= Len(C)
    <3> HIDE DEF LD
    <3> QED BY <1>1, <1>2, <1>3, <1>7
  <2> QED BY <1>8, <1>11, <1>12, <2>1, <2>2 DEF Fixed
<1>14. ReverseInv(d, a)
  <2>1. ASSUME NEW l \in 1..LD
        PROVE  C[s + l] = D[IF s + l <= p \/ s + l > q - 1 THEN l ELSE LD + 1 - l]
    <3>1. l \in Nat /\ s + l \in 1..Len(B)
      <4> HIDE DEF LD
      <4> QED BY <1>1, <1>2, <1>3
    <3>2. CASE s + l = p
      <4> DEFINE m == q - s
      <4>1. m \in 1..LD /\ s + m = q /\ ~ (q <= c.i \/ q > q) /\ LD + 1 - m = l /\ p # q
        <5> HIDE DEF LD
        <5> QED BY <1>1, <1>2, <1>5, <3>1, <3>2
      <4>2. C[s + l] = B[q] BY <1>7, <3>1, <3>2, <4>1
      <4> HIDE DEF m
      <4>3. B[q] = D[l] BY <1>9, <4>1
      <4>4. s + l <= p BY <1>5, <3>2
      <4> QED BY <4>2, <4>3, <4>4
    <3>3. CASE s + l = q
      <4> DEFINE m == p - s
      <4>1. m \in 1..LD /\ s + m = p /\ ~ (p <= c.i \/ p > q) /\ LD + 1 - m = l /\ s + l > q - 1
        <5> HIDE DEF LD
        <5> QED BY <1>1, <1>2, <1>5, <3>1, <3>3
      <4>2. C[s + l] = B[p] BY <1>7, <3>1, <3>3
      <4> HIDE DEF m
      <4>3. B[p] = D[l] BY <1>9, <4>1
      <4> QED BY <4>1, <4>2, <4>3
    <3>4. CASE s + l # p /\ s + l # q
      <4>1. C[s + l] = B[s + l] BY <1>7, <3>1, <3>4
      <4>2. (s + l <= p \/ s + l > q - 1) <=> (s + l <= c.i \/ s + l > q)
        <5> HIDE DEF LD
        <5> QED BY <1>1, <1>5, <3>1, <3>4
      <4> QED BY <1>9, <4>1, <4>2
    <3> QED BY <3>2, <3>3, <3>4
  <2>2. Len(C) = s + LD BY <1>3, <1>7
  <2>3. s <= p /\ p <= q - 1 /\ p + (q - 1) = 2 * s + LD
    <3> HIDE DEF LD
    <3> QED BY <1>1, <1>2, <1>5
  <2> QED BY <1>8, <2>1, <2>2, <2>3 DEF ReverseInv, D
<1> QED BY <1>13, <1>14 DEF d

\* The digits are all in their order when i and j have met.
LEMMA Ordered ==
  ASSUME NEW a \in NumArg, NEW c, Fixed(c, a), ReverseInv(c, a), ~ (c.i < c.j - 1)
  PROVE  c.buffer = Sign(a) \o Digits(a)
<1> DEFINE D == Digits(a)
           LD == Len(D)
           G == Sign(a)
           s == c.start
           B == c.buffer
           W == G \o D
           ii == c.i
           jj == c.j
<1>1. B \in Seq(Nat) /\ Len(B) \in Nat /\ s \in Nat /\ ii \in Int /\ jj \in Int /\ s = Len(G)
  BY DEF Fixed, Conversion
<1>2. D \in Seq(Nat) /\ LD \in Nat /\ G \in Seq(Nat) BY DigitsAre
<1>3. Len(B) = s + LD /\ s <= ii /\ ii <= jj /\ ii + jj = 2 * s + LD BY DEF ReverseInv
<1>4. ~ (ii < jj - 1) OBVIOUS
<1>5. \A l \in 1..LD : B[s + l] = D[IF s + l <= ii \/ s + l > jj THEN l ELSE LD + 1 - l]
  BY DEF ReverseInv
<1>6. \A k \in 1..s : B[k] = G[k] BY DEF Fixed
<1> HIDE DEF D, s, G, B, ii, jj
<1>7. /\ W \in Seq(Nat) /\ Len(W) = s + LD
      /\ \A k \in 1..(s + LD) : W[k] = IF k <= s THEN G[k] ELSE D[k - s]
  BY <1>1, <1>2, ConcatProperties
<1> HIDE DEF W
<1>8. ASSUME NEW k \in 1..(s + LD) PROVE B[k] = W[k]
  <2>1. CASE k <= s
    <3>1. k \in 1..s BY <1>1, <2>1
    <3> QED BY <1>6, <1>7, <2>1, <3>1
  <2>2. CASE ~ (k <= s)
    <3> DEFINE l == k - s
    <3>1. /\ l \in 1..LD /\ s + l = k
          /\ ~ (s + l <= ii \/ s + l > jj) => LD + 1 - l = l
      <4> HIDE DEF LD
      <4>1. Meet(ii, jj, s, LD) BY <1>3, <1>4 DEF Meet
      <4>2. ii \in Int /\ jj \in Int /\ s \in Nat /\ LD \in Nat /\ k \in Int
        BY <1>1, <1>2
      <4>3. s < k /\ k <= s + LD BY <2>2, <4>2
      <4>4. Mirror(ii, jj, s, LD, k) BY <4>1, <4>2, <4>3, Met
      <4> QED BY <4>4 DEF Mirror
    <3>2. W[k] = D[l] BY <1>7, <2>2
    <3> HIDE DEF l
    <3>3. B[s + l] = D[l] BY <1>5, <3>1
    <3> QED BY <3>1, <3>2, <3>3
  <2> QED BY <2>1, <2>2
<1>9. B = W BY <1>1, <1>3, <1>7, <1>8, SeqEqual
<1> QED BY <1>9 DEF B, W, G, D

------------------------------------------------------------------------------
(***************************************************************************)
(* The inductive invariant.                                                *)

PrintfTypeOK ==
  /\ pc \in {"idle", "scan", "digits", "reverse", "print", "done", "failed"}
  /\ format \in Str /\ at \in 1..(Len(format) + 1)
  /\ given \in Seq(Arg) /\ out \in Seq(Nat)
  /\ written \in Nat /\ written <= INT_MAX

IdleInv == pc = "idle" => at = 1 /\ given = <<>> /\ out = <<>> /\ written = 0

\* What is printed is the text up to the position, whatever arguments follow.
ScanInv ==
  pc = "scan" => /\ Ahead(format, given, out, at, Len(given) + 1)
                 /\ written = Len(out) - 2 * Prefixed(given)

\* The conversion c of a, at the stage p.
Under(p, c, a) ==
  /\ Fixed(c, a)
  /\ p = "digits" => DigitsInv(c, a)
  /\ p = "reverse" => ReverseInv(c, a)
  /\ p = "print" => c.buffer = Sign(a) \o Digits(a)

\* The last argument is being written, after the arguments s.
Taken(f, k, g, o, w, s, a) ==
  /\ g = Append(s, a) /\ k + 1 <= Len(f) /\ f[k] = Percent
  /\ CharOf(f, k + 1) = Ord[a[1]]
  /\ Ahead(f, s, o, k, Len(s) + 1) /\ w = Len(o) - 2 * Prefixed(s)
NumberInv ==
  pc \in {"digits", "reverse", "print"} =>
    \E s \in Seq(Arg), a \in NumArg :
      Taken(format, at, given, out, written, s, a) /\ Under(pc, conv, a)

PrintfInv == PrintfTypeOK /\ IdleInv /\ ScanInv /\ NumberInv /\ PrintsAsTold

LEMMA PrintfInitInv == PrintfInit => PrintfInv
<1> SUFFICES ASSUME PrintfInit PROVE PrintfInv OBVIOUS
<1>1. /\ pc = "idle" /\ format = <<>> /\ at = 1 /\ given = <<>> /\ out = <<>> /\ written = 0
  BY DEF PrintfInit
<1>2. <<>> \in Str /\ <<>> \in Seq(Arg) /\ <<>> \in Seq(Nat) /\ Len(<<>>) = 0 BY DEF Str
<1>3. PrintfTypeOK BY <1>1, <1>2, Bounds DEF PrintfTypeOK
<1> QED BY <1>1, <1>3 DEF PrintfInv, IdleInv, ScanInv, NumberInv, PrintsAsTold

------------------------------------------------------------------------------
(* One lemma per step                                                      *)

\* A chunk w is printed, or there is no room for it.
LEMMA EmitKeeps ==
  ASSUME PrintfInv, pc = "scan", NEW w \in Seq(Nat), NEW next \in 1..(Len(format) + 1),
         NEW n, Emit(w, next), format' = format, given' \in Seq(Arg),
         Prefixed(given') = Prefixed(given),
         Ahead(format, given', out, at, n),
         Stands(format, given', at, n, w, next, Len(given') + 1)
  PROVE  PrintfInv'
<1>1. /\ format \in Str /\ out \in Seq(Nat) /\ written \in Nat /\ written <= INT_MAX
      /\ INT_MAX \in Nat /\ Len(format) \in Nat /\ at \in 1..(Len(format) + 1)
      /\ written = Len(out) - 2 * Prefixed(given)
  BY Bounds, StrIs DEF PrintfInv, PrintfTypeOK, ScanInv
<1>2. Len(w) \in Nat /\ Len(out) \in Nat /\ Len(given') \in Nat BY <1>1
<1>3. Place(format, given', next, Len(given') + 1) BY <1>1, <1>2 DEF Place
<1> DEFINE z == Prefixed(given')
           x == Len(w)
           y == Len(out)
<1>4. z \in Nat /\ x \in Nat /\ y \in Nat BY <1>2, PrefixedIs
<1>0. written = y - 2 * z BY <1>1
<1> HIDE DEF x, y, z
<1>5. CASE Room(Len(w)) /\ out' = out \o w /\ written' = written + Len(w)
           /\ at' = next /\ pc' = "scan"
  <2>1. out \o w \in Seq(Nat) /\ Len(out \o w) = Len(out) + Len(w) BY <1>1, ConcatProperties
  <2>2. written' \in Nat /\ written' <= INT_MAX BY <1>1, <1>2, <1>5 DEF Room
  <2>3. PrintfTypeOK' BY <1>1, <1>5, <2>1, <2>2 DEF PrintfTypeOK
  <2>4. Ahead(format, given', out \o w, next, Len(given') + 1) BY <1>1, <1>3, AheadOn
  <2>5. written' = Len(out \o w) - 2 * Prefixed(given')
    <3>1. written' = written + x /\ Len(out \o w) = y + x BY <1>5, <2>1 DEF x, y
    <3>2. written' = Len(out \o w) - 2 * z BY <1>0, <1>4, <3>1
    <3> QED BY <3>2 DEF z
  <2>6. ScanInv' BY <1>5, <2>4, <2>5 DEF ScanInv
  <2> QED BY <1>5, <2>3, <2>6 DEF PrintfInv, IdleInv, NumberInv, PrintsAsTold
<1>6. CASE ~ Room(Len(w)) /\ pc' = "failed" /\ UNCHANGED <<out, written, at>>
  <2>1. PrintfTypeOK' BY <1>1, <1>6 DEF PrintfTypeOK
  <2> DEFINE t == Texts(format, given')[1][1]
  <2>2. IsPrefix(out, t) /\ Len(t) \in Nat /\ Len(t) >= Len(out) + Len(w)
    BY <1>1, <1>3, AheadBegins
  <2>3. Expansion' = t BY DEF Expansion
  <2> HIDE DEF t
  <2>4. Counting' = Len(t) - 2 * Prefixed(given') BY <2>3 DEF Counting
  <2>5. Counting' > INT_MAX
    <3>1. ~ (x <= INT_MAX - written) BY <1>6 DEF Room, x
    <3> DEFINE u == Len(t)
    <3>2. u \in Nat /\ u >= y + x /\ Counting' = u - 2 * z BY <2>2, <2>4 DEF x, y, z
    <3> HIDE DEF u
    <3> QED BY <1>0, <1>1, <1>4, <3>1, <3>2
  <2>6. PrintsAsTold' BY <1>6, <2>2, <2>3, <2>5 DEF PrintsAsTold
  <2> QED BY <1>6, <2>1, <2>6 DEF PrintfInv, IdleInv, NumberInv, ScanInv
<1> QED BY <1>5, <1>6 DEF Emit

\* The position is on a directive, and inside the format.
LEMMA DirectiveIs ==
  ASSUME PrintfInv, NEW letter \in DOMAIN Ord, Directive(letter)
  PROVE  /\ pc = "scan" /\ format \in Str /\ at \in 1..Len(format) /\ Len(format) \in Nat
         /\ format[at] = Percent /\ at + 1 <= Len(format)
         /\ CharOf(format, at + 1) = Ord[letter]
         /\ at + 2 \in 1..(Len(format) + 1)
<1>1. pc = "scan" /\ CharOf(format, at) = Percent /\ CharOf(format, at + 1) = Ord[letter]
  BY DEF Directive, Char
<1>2. format \in Str /\ at \in 1..(Len(format) + 1) /\ Len(format) \in Nat
  BY StrIs DEF PrintfInv, PrintfTypeOK
<1>3. at <= Len(format) /\ format[at] = Percent BY <1>1 DEF CharOf, Percent
<1>4. Ord[letter] # 0 BY Letters DEF Codes
<1>5. at + 1 <= Len(format) BY <1>1, <1>4 DEF CharOf
<1> QED BY <1>1, <1>2, <1>3, <1>5

LEMMA LiteralKeeps == ASSUME PrintfInv, Literal PROVE PrintfInv'
<1> DEFINE from == IF Char(at) = Percent THEN at + 1 ELSE at
           to == CHOOSE k \in from..Len(format) :
                   /\ Char(k + 1) \in {0, Percent}
                   /\ \A l \in (from + 1)..k : Char(l) # Percent
           n == Len(given) + 1
<1>1. /\ pc = "scan" /\ Char(at) # 0 /\ (Char(at) # Percent \/ Char(at + 1) = Percent)
      /\ Emit(SubSeq(format, from, to), to + 1)
      /\ format' = format /\ given' = given
  BY DEF Literal
<1>2. format \in Str /\ Len(format) \in Nat /\ at \in 1..(Len(format) + 1) /\ given \in Seq(Arg)
  BY StrIs DEF PrintfInv, PrintfTypeOK
<1>3. at \in 1..Len(format) /\ CharOf(format, at) = format[at] BY <1>1, <1>2 DEF Char, CharOf
<1>4. from = (IF format[at] = Percent THEN at + 1 ELSE at) BY <1>3 DEF Char
<1>5. from \in 1..Len(format)
  <2>1. CASE format[at] = Percent
    <3>1. CharOf(format, at + 1) = Percent BY <1>1, <1>3, <2>1 DEF Char
    <3>2. at + 1 <= Len(format) BY <3>1 DEF CharOf, Percent
    <3> HIDE DEF from
    <3> QED BY <1>2, <1>3, <1>4, <2>1, <3>2
  <2>2. CASE format[at] # Percent
    <3> HIDE DEF from
    <3> QED BY <1>3, <1>4, <2>2
  <2> QED BY <2>1, <2>2
<1>6. to = CHOOSE k \in from..Len(format) :
             /\ CharOf(format, k + 1) \in {0, Percent}
             /\ \A l \in (from + 1)..k : CharOf(format, l) # Percent
  BY Zenon DEF Char
<1>7. format[at] # Percent \/ CharOf(format, at + 1) = Percent BY <1>1, <1>3 DEF Char
<1>8. Ahead(format, given, out, at, n) BY <1>1 DEF PrintfInv, ScanInv
<1> HIDE DEF from, to
<1>9. to \in from..Len(format) /\ \A l \in (from + 1)..to : format[l] # Percent
  BY <1>2, <1>5, <1>6, LiteralEnds
<1>10. /\ Stands(format, given, at, n, SubSeq(format, from, to), to + 1, n)
       /\ SubSeq(format, from, to) \in Seq(Nat)
  BY <1>2, <1>3, <1>4, <1>7, <1>9, LiteralStands
<1>11. to + 1 \in 1..(Len(format) + 1) BY <1>2, <1>5, <1>9
<1> DEFINE w == SubSeq(format, from, to)
<1>12. w \in Seq(Nat) /\ Emit(w, to + 1) /\ Stands(format, given', at, n, w, to + 1, Len(given') + 1)
  BY <1>1, <1>10
<1> HIDE DEF w
<1>13. Ahead(format, given', out, at, n) /\ Prefixed(given') = Prefixed(given) /\ given' \in Seq(Arg)
  BY <1>1, <1>2, <1>8
<1> HIDE DEF n
<1> QED BY <1>1, <1>11, <1>12, <1>13, EmitKeeps

LEMMA OtherKeeps == ASSUME PrintfInv, Other PROVE PrintfInv'
<1> DEFINE n == Len(given) + 1
           w == SubSeq(format, at, Len(format))
<1>1. /\ pc = "scan" /\ CharOf(format, at) = Percent
      /\ CharOf(format, at + 1) \notin {Percent} \cup {Ord[l] : l \in DOMAIN Ord}
      /\ Emit(w, Len(format) + 1) /\ format' = format /\ given' = given
  BY DEF Other, Char
<1>2. format \in Str /\ Len(format) \in Nat /\ at \in 1..(Len(format) + 1) /\ given \in Seq(Arg)
  BY StrIs DEF PrintfInv, PrintfTypeOK
<1>3. at \in 1..Len(format) /\ format[at] = Percent BY <1>1, <1>2 DEF CharOf, Percent
<1>4. CharOf(format, at + 1) # Percent /\ CharOf(format, at + 1) \notin Codes BY <1>1, Letters
<1>5. Stands(format, given, at, n, w, Len(format) + 1, n) /\ w \in Seq(Nat)
  BY <1>2, <1>3, <1>4, OtherStands
<1>6. Ahead(format, given, out, at, n) BY <1>1 DEF PrintfInv, ScanInv
<1>7. Len(format) + 1 \in 1..(Len(format) + 1) BY <1>2
<1>8. /\ Ahead(format, given', out, at, n) /\ Prefixed(given') = Prefixed(given)
      /\ given' \in Seq(Arg) /\ Stands(format, given', at, n, w, Len(format) + 1, Len(given') + 1)
  BY <1>1, <1>2, <1>5, <1>6
<1> HIDE DEF n, w
<1> QED BY <1>1, <1>5, <1>7, <1>8, EmitKeeps

\* %c and %s.
LEMMA TextKeeps ==
  ASSUME PrintfInv, NEW letter \in {"c", "s"}, NEW s, <<letter, s>> \in Arg, s \in Seq(Nat),
         Text(letter, s)
  PROVE  PrintfInv'
<1> DEFINE a == <<letter, s>>
           n == Len(given) + 1
<1>1. /\ Directive(letter) /\ Emit(s, at + 2) /\ given' = Append(given, a) /\ format' = format
  BY DEF Text
<1>2. letter \in DOMAIN Ord BY Letters
<1>3. /\ pc = "scan" /\ format \in Str /\ at \in 1..Len(format) /\ format[at] = Percent
      /\ CharOf(format, at + 1) = Ord[letter] /\ at + 2 \in 1..(Len(format) + 1)
  BY <1>1, <1>2, DirectiveIs
<1>4. given \in Seq(Arg) /\ Ahead(format, given, out, at, n)
  BY <1>3 DEF PrintfInv, PrintfTypeOK, ScanInv
<1>5. a \in Arg /\ Spelled(a) = s /\ ~ Hexadecimal(a) BY DEF Spelled, Hexadecimal
<1> HIDE DEF a
<1>6. given' \in Seq(Arg) /\ Len(given') = n BY <1>1, <1>4, <1>5, AppendProperties
<1>7. Prefixed(given') = Prefixed(given)
  <2>1. Prefixed(given') = Prefixed(given) + 0 /\ Prefixed(given) \in Nat
    BY <1>1, <1>4, <1>5, PrefixedIs
  <2> QED BY <2>1
<1>8. Ahead(format, given', out, at, n) BY <1>1, <1>4, <1>5, StandsMore DEF Ahead
<1>9. Stands(format, given', at, n, s, at + 2, Len(given') + 1)
  <2>1. Stands(format, Append(given, a), at, n, s, at + 2, Len(given) + 2)
    BY <1>2, <1>3, <1>4, <1>5, ArgStands
  <2>2. Len(given) \in Nat BY <1>4
  <2>3. Len(given) + 2 = n + 1 BY <2>2
  <2> HIDE DEF n
  <2> QED BY <1>1, <1>6, <2>1, <2>3
<1> HIDE DEF n
<1> QED BY <1>1, <1>3, <1>6, <1>7, <1>8, <1>9, EmitKeeps

\* A conversion starts with all of its digits to come.
LEMMA Starts ==
  ASSUME NEW a \in NumArg, NEW c \in Conversion,
         c.value = Abs(a), c.base = Base(a), c.size = Size(a), c.alpha = Alpha(a),
         c.prefix = Lead(a), c.start = Len(Sign(a)), c.buffer = Sign(a)
  PROVE  Under("digits", c, a)
<1>1. /\ Abs(a) \in 0..UINT_MAX /\ Sign(a) \in Seq(Nat) /\ Len(Sign(a)) \in Nat
      /\ Digits(a) \in Seq(Nat) /\ Len(Digits(a)) \in Nat
  BY DigitsAre
<1>2. Fixed(c, a) BY <1>1 DEF Fixed
<1>3. Rest(c, a) = Digits(a) BY DEF Rest, Digits
<1>4. Len(c.buffer) - c.start = 0 BY <1>1
<1>5. 1..(Len(c.buffer) - c.start) = {} BY <1>4
<1>6. Len(Rest(c, a)) + (Len(c.buffer) - c.start) = Len(Digits(a)) BY <1>1, <1>3, <1>4
<1>7. DigitsInv(c, a) BY <1>1, <1>3, <1>5, <1>6 DEF DigitsInv
<1> QED BY <1>2, <1>7 DEF Under

LEMMA BeginKeeps ==
  ASSUME PrintfInv, NEW letter, NEW num, <<letter, num>> \in NumArg, NEW c,
         Begin(letter, num, c), Under("digits", c, <<letter, num>>)
  PROVE  PrintfInv'
<1> DEFINE a == <<letter, num>>
<1>1. /\ Directive(letter) /\ pc' = "digits" /\ conv' = c /\ given' = Append(given, a)
      /\ UNCHANGED <<format, at, out, written>>
  BY DEF Begin
<1>2. a \in NumArg /\ a \in Arg /\ a[1] = letter BY DEF Arg
<1>3. letter \in DOMAIN Ord BY <1>2, NumArgIs, Letters
<1>4. /\ pc = "scan" /\ format \in Str /\ at \in 1..Len(format) /\ format[at] = Percent
      /\ CharOf(format, at + 1) = Ord[letter] /\ at + 1 <= Len(format)
  BY <1>1, <1>3, DirectiveIs
<1>5. /\ PrintfTypeOK /\ given \in Seq(Arg) /\ Ahead(format, given, out, at, Len(given) + 1)
      /\ written = Len(out) - 2 * Prefixed(given)
  BY <1>4 DEF PrintfInv, PrintfTypeOK, ScanInv
<1> HIDE DEF a
<1>6. given' \in Seq(Arg) BY <1>1, <1>2, <1>5, AppendProperties
<1>7. PrintfTypeOK' BY <1>1, <1>5, <1>6 DEF PrintfTypeOK
<1>8. Taken(format', at', given', out', written', given, a)
  BY <1>1, <1>2, <1>4, <1>5 DEF Taken
<1>9. Under(pc', conv', a) BY <1>1 DEF a
<1>10. NumberInv' BY <1>2, <1>5, <1>8, <1>9 DEF NumberInv
<1> QED BY <1>1, <1>7, <1>10 DEF PrintfInv, IdleInv, ScanInv, PrintsAsTold

LEMMA NoConvIs ==
  /\ NoConv \in Conversion /\ NoConv.base = 10 /\ NoConv.alpha = 0
  /\ NoConv.prefix = <<>> /\ NoConv.start = 0 /\ NoConv.buffer = <<>>
<1> DEFINE e == <<>>
<1>1. e \in Seq(Nat) OBVIOUS
<1>2. NoConv = [value |-> 0, base |-> 10, size |-> 0, alpha |-> 0, prefix |-> e,
                start |-> 0, buffer |-> e, i |-> 0, j |-> 0] BY DEF NoConv
<1> HIDE DEF e
<1>3. NoConv \in Conversion BY <1>1, <1>2 DEF Conversion
<1>4. NoConv.prefix = e /\ NoConv.buffer = e BY <1>2
<1>5. NoConv.base = 10 /\ NoConv.alpha = 0 /\ NoConv.start = 0 BY <1>2
<1> QED BY <1>3, <1>4, <1>5 DEF e

LEMMA SignedKeeps == ASSUME PrintfInv, NEW num \in Ints, Signed(num) PROVE PrintfInv'
<1> DEFINE a == <<"d", num>>
           c == [NoConv EXCEPT !.size = IntSize, !.value = Magnitude(num),
                   !.start = IF num < 0 THEN 1 ELSE 0,
                   !.buffer = IF num < 0 THEN <<Minus>> ELSE <<>>]
<1>1. a \in NumArg /\ a[1] = "d" /\ a[2] = num BY DEF NumArg
<1>2. num \in Int /\ -(INT_MAX + 1) <= num /\ num <= INT_MAX BY <1>1, NumArgIs
<1>3. Magnitude(num) = Abs(a) /\ Abs(a) \in Nat
  <2>1. CASE num < 0
    <3>1. -(num + 1) + 1 = -num /\ -num \in Nat /\ -num <= UINT_MAX
      BY <1>2, <2>1, Bounds
    <3>2. \A k \in Nat : k <= UINT_MAX => k % (UINT_MAX + 1) = k BY Bounds
    <3>3. (-(num + 1) + 1) % (UINT_MAX + 1) = -num BY <3>1, <3>2
    <3> QED BY <2>1, <3>1, <3>3 DEF Magnitude, Abs
  <2>2. CASE ~ (num < 0) BY <1>2, <2>2 DEF Magnitude, Abs
  <2> QED BY <2>1, <2>2
<1>4. /\ c \in Conversion /\ c.value = Magnitude(num) /\ c.base = 10 /\ c.size = IntSize
      /\ c.alpha = 0 /\ c.prefix = <<>> /\ c.start = (IF num < 0 THEN 1 ELSE 0)
      /\ c.buffer = (IF num < 0 THEN <<Minus>> ELSE <<>>)
  <2> DEFINE y == Magnitude(num)
             B == IF num < 0 THEN <<Minus>> ELSE <<>>
  <2>1. y \in Nat /\ B \in Seq(Nat) /\ IntSize \in Nat BY <1>3, Bounds DEF Minus
  <2>2. <<>> \in Seq(Nat) OBVIOUS
  <2> HIDE DEF y, B
  <2>3. c = [NoConv EXCEPT !.size = IntSize, !.value = y,
               !.start = IF num < 0 THEN 1 ELSE 0, !.buffer = B] BY DEF y, B
  <2>4. /\ c \in Conversion /\ c.value = y /\ c.base = 10 /\ c.size = IntSize
        /\ c.alpha = 0 /\ c.prefix = <<>> /\ c.start = (IF num < 0 THEN 1 ELSE 0)
        /\ c.buffer = B
    <3> HIDE DEF c
    <3> QED BY <2>1, <2>2, <2>3, NoConvIs DEF Conversion
  <2> HIDE DEF c
  <2> QED BY <2>4 DEF y, B
<1>5. /\ Base(a) = 10 /\ Size(a) = IntSize /\ Alpha(a) = 0 /\ Lead(a) = <<>>
      /\ Sign(a) = (IF num < 0 THEN <<Minus>> ELSE <<>>)
      /\ Len(Sign(a)) = (IF num < 0 THEN 1 ELSE 0)
  BY <1>1 DEF Base, Size, Alpha, Lead, Sign, Hexadecimal
<1>6. Begin("d", num, c) BY DEF Signed
<1> HIDE DEF c
<1>7. Under("digits", c, a) BY <1>1, <1>3, <1>4, <1>5, Starts
<1> QED BY <1>1, <1>6, <1>7, BeginKeeps

LEMMA UnsignedKeeps == ASSUME PrintfInv, NEW num \in Uints, Unsigned(num) PROVE PrintfInv'
<1> DEFINE a == <<"u", num>>
           c == [NoConv EXCEPT !.size = UintSize, !.value = num]
<1>1. a \in NumArg /\ a[1] = "u" /\ a[2] = num BY DEF NumArg
<1>2. num \in Nat BY <1>1, NumArgIs
<1>3. Abs(a) = num BY <1>1, <1>2 DEF Abs
<1>4. /\ c \in Conversion /\ c.value = num /\ c.base = 10 /\ c.size = UintSize
      /\ c.alpha = 0 /\ c.prefix = <<>> /\ c.start = 0 /\ c.buffer = <<>>
  <2>1. c = [NoConv EXCEPT !.size = UintSize, !.value = num] OBVIOUS
  <2> HIDE DEF c
  <2> QED BY <1>2, <2>1, NoConvIs, Bounds DEF Conversion
<1>5. /\ Base(a) = 10 /\ Size(a) = UintSize /\ Alpha(a) = 0 /\ Lead(a) = <<>>
      /\ Sign(a) = <<>> /\ Len(Sign(a)) = 0
  BY <1>1 DEF Base, Size, Alpha, Lead, Sign, Hexadecimal
<1>6. Begin("u", num, c) BY DEF Unsigned
<1> HIDE DEF c
<1>7. Under("digits", c, a) BY <1>1, <1>3, <1>4, <1>5, Starts
<1> QED BY <1>1, <1>6, <1>7, BeginKeeps

LEMMA HexKeeps ==
  ASSUME PrintfInv, NEW num \in Uints, NEW letter \in {"x", "X"}, Hex(letter, num)
  PROVE  PrintfInv'
<1> DEFINE a == <<letter, num>>
           c == [NoConv EXCEPT !.size = HexSize, !.value = num, !.base = 16,
                      !.prefix = <<48, 120>>,
                      !.alpha = IF letter = "X" THEN 55 ELSE 87]
<1>1. a \in NumArg /\ a[1] = letter /\ a[2] = num BY DEF NumArg
<1>2. num \in Nat BY <1>1, NumArgIs
<1>3. Abs(a) = num BY <1>1, <1>2 DEF Abs
<1>4. /\ c \in Conversion /\ c.value = num /\ c.base = 16 /\ c.size = HexSize
      /\ c.alpha = (IF letter = "X" THEN 55 ELSE 87) /\ c.prefix = <<48, 120>>
      /\ c.start = 0 /\ c.buffer = <<>>
  <2> DEFINE y == <<48, 120>>
             z == IF letter = "X" THEN 55 ELSE 87
  <2>1. y \in Seq(Nat) /\ z \in Nat OBVIOUS
  <2>2. c = [NoConv EXCEPT !.size = HexSize, !.value = num, !.base = 16,
                      !.prefix = y, !.alpha = z] OBVIOUS
  <2> HIDE DEF c, y, z
  <2>3. /\ c \in Conversion /\ c.value = num /\ c.base = 16 /\ c.size = HexSize
        /\ c.alpha = z /\ c.prefix = y /\ c.start = 0 /\ c.buffer = <<>>
    BY <1>2, <2>1, <2>2, NoConvIs, Bounds DEF Conversion
  <2> QED BY <2>3 DEF y, z
<1>5. /\ Base(a) = 16 /\ Size(a) = HexSize /\ Alpha(a) = (IF letter = "X" THEN 55 ELSE 87)
      /\ Lead(a) = <<48, 120>> /\ Sign(a) = <<>> /\ Len(Sign(a)) = 0
  BY <1>1 DEF Base, Size, Alpha, Lead, Sign, Hexadecimal
<1>6. Begin(letter, num, c) BY DEF Hex
<1> HIDE DEF c
<1>7. Under("digits", c, a) BY <1>1, <1>3, <1>4, <1>5, Starts
<1> QED BY <1>1, <1>6, <1>7, BeginKeeps

\* A stage of the conversion is left for another, and nothing is printed.
LEMMA StageKeeps ==
  ASSUME PrintfInv, pc \in {"digits", "reverse", "print"}, pc' \in {"digits", "reverse", "print"},
         UNCHANGED <<format, at, given, out, written>>,
         \A a \in NumArg : Under(pc, conv, a) => Under(pc', conv', a)
  PROVE  PrintfInv'
<1>1. PrintfTypeOK' BY DEF PrintfInv, PrintfTypeOK
<1>2. PICK s \in Seq(Arg), a \in NumArg :
        Taken(format, at, given, out, written, s, a) /\ Under(pc, conv, a)
  BY DEF PrintfInv, NumberInv
<1>3. NumberInv' BY <1>2 DEF NumberInv
<1> QED BY <1>1, <1>3 DEF PrintfInv, IdleInv, ScanInv, PrintsAsTold

LEMMA DigitKeeps == ASSUME PrintfInv, Digit PROVE PrintfInv'
<1>1. PICK s \in Seq(Arg), a \in NumArg :
        Taken(format, at, given, out, written, s, a) /\ Under(pc, conv, a)
  BY DEF Digit, PrintfInv, NumberInv
<1>2. pc = "digits" /\ UNCHANGED <<format, at, given, out, written>> BY DEF Digit
<1>3. Len(conv.buffer) < conv.size /\ Len(conv.buffer) \in Nat /\ conv.size \in Nat
  <2>1. Fixed(conv, a) /\ DigitsInv(conv, a) BY <1>1, <1>2 DEF Under
  <2>2. Len(conv.buffer) < conv.size BY <2>1, Shorter
  <2>3. conv.buffer \in Seq(Nat) /\ conv.size \in Nat BY <2>1 DEF Fixed, Conversion
  <2> QED BY <2>2, <2>3
<1>4. ~ (Len(conv.buffer) >= conv.size) BY <1>3
<1> DEFINE rest == conv.value \div conv.base
           grown == Append(conv.buffer, DigitOf(conv.value % conv.base))
<1>5. /\ conv' = [conv EXCEPT !.value = rest, !.buffer = grown,
                              !.i = conv.start, !.j = Len(grown)]
      /\ pc' = IF rest = 0 THEN "reverse" ELSE "digits"
  BY <1>4 DEF Digit
<1>6. Len(grown) = Len(conv.buffer) + 1
  <2>1. Fixed(conv, a) /\ DigitsInv(conv, a) BY <1>1, <1>2 DEF Under
  <2>2. Fixed(Shortened(conv), a) BY <2>1, Shorter
  <2>3. conv.buffer \in Seq(Nat) BY <2>1 DEF Fixed, Conversion
  <2>4. /\ conv.value \in Nat /\ conv.base \in {10, 16} /\ conv.alpha \in Nat
    BY <2>1, GlyphsIs DEF Fixed, Conversion
  <2>5. conv.value % conv.base \in Nat BY <2>4, DivIs
  <2>6. DigitOf(conv.value % conv.base) \in Nat BY <2>4, <2>5 DEF DigitOf
  <2> QED BY <2>3, <2>6, AppendProperties
<1>7. conv' = Shortened(conv)
  <2> DEFINE x == Len(grown)
  <2>1. conv' = [conv EXCEPT !.value = rest, !.buffer = grown, !.i = conv.start, !.j = x]
    BY <1>5
  <2>2. x = Len(conv.buffer) + 1 BY <1>6
  <2> HIDE DEF x
  <2> QED BY <2>1, <2>2 DEF Shortened, DigitOf
<1>8. ASSUME NEW b \in NumArg, Under(pc, conv, b) PROVE Under(pc', conv', b)
  <2>1. Fixed(conv, b) /\ DigitsInv(conv, b) BY <1>2, <1>8 DEF Under
  <2>2. Fixed(conv', b) BY <1>7, <2>1, Shorter
  <2>3. rest = 0 => ReverseInv(conv', b) BY <1>7, <2>1, Shorter
  <2>4. rest # 0 => DigitsInv(conv', b) BY <1>7, <2>1, Shorter
  <2> HIDE DEF rest
  <2> QED BY <1>5, <2>2, <2>3, <2>4 DEF Under
<1>9. pc' \in {"digits", "reverse", "print"} BY <1>5
<1> QED BY <1>2, <1>8, <1>9, StageKeeps

LEMMA SwapKeeps == ASSUME PrintfInv, Swap PROVE PrintfInv'
<1>1. /\ pc = "reverse" /\ pc' = "reverse" /\ conv.i < conv.j - 1
      /\ UNCHANGED <<format, at, given, out, written>>
  BY DEF Swap, Before
<1>2. conv' = Exchanged(conv) BY DEF Swap, Before, Exchanged
<1>3. ASSUME NEW b \in NumArg, Under(pc, conv, b) PROVE Under(pc', conv', b)
  <2>1. Fixed(conv, b) /\ ReverseInv(conv, b) BY <1>1, <1>3 DEF Under
  <2>2. Fixed(conv', b) /\ ReverseInv(conv', b) BY <1>1, <1>2, <2>1, ExchangeKeeps
  <2> QED BY <1>1, <2>2 DEF Under
<1> QED BY <1>1, <1>3, StageKeeps

LEMMA ReversedKeeps == ASSUME PrintfInv, Reversed PROVE PrintfInv'
<1>1. /\ pc = "reverse" /\ pc' = "print" /\ conv.i >= conv.j - 1 /\ conv' = conv
      /\ UNCHANGED <<format, at, given, out, written>>
  BY DEF Reversed, Before
<1>2. ASSUME NEW b \in NumArg, Under(pc, conv, b) PROVE Under(pc', conv', b)
  <2>1. Fixed(conv, b) /\ ReverseInv(conv, b) BY <1>1, <1>2 DEF Under
  <2>2. conv.i \in Int /\ conv.j \in Int BY <2>1 DEF Fixed, Conversion
  <2>3. ~ (conv.i < conv.j - 1) BY <1>1, <2>2
  <2>4. conv.buffer = Sign(b) \o Digits(b) BY <2>1, <2>3, Ordered
  <2> QED BY <1>1, <2>1, <2>4 DEF Under
<1> QED BY <1>1, <1>2, StageKeeps

\* What PrintNumber prints, and how long it is.
LEMMA PrintedIs ==
  ASSUME NEW a \in NumArg, NEW b, b = Sign(a) \o Digits(a), NEW o \in Seq(Nat)
  PROVE  /\ b \in Seq(Nat) /\ Len(b) \in Nat /\ Spelled(a) \in Seq(Nat)
         /\ Len(Spelled(a)) = 2 * (IF Hexadecimal(a) THEN 1 ELSE 0) + Len(b)
         /\ (o \o Lead(a)) \o b = o \o Spelled(a)
<1> DEFINE u == Lead(a)
           w == Spelled(a)
<1>1. w = u \o b /\ b \in Seq(Nat) BY SpelledIs
<1>2. u \in Seq(Nat) /\ Len(u) = (IF Hexadecimal(a) THEN 2 ELSE 0) BY DigitsAre
<1> HIDE DEF u, w
<1>3. Len(b) \in Nat BY <1>1, LenProperties
<1>4. w \in Seq(Nat) /\ Len(w) = Len(u) + Len(b) BY <1>1, <1>2, ConcatProperties
<1>5. (o \o u) \o b = o \o w BY <1>1, <1>2, Associative
<1>6. Len(w) = 2 * (IF Hexadecimal(a) THEN 1 ELSE 0) + Len(b)
  <2> DEFINE l == Len(u)
             m == Len(w)
             n == Len(b)
  <2>1. l = (IF Hexadecimal(a) THEN 2 ELSE 0) /\ m = l + n /\ n \in Nat BY <1>2, <1>3, <1>4
  <2> HIDE DEF l, m, n, Hexadecimal
  <2>2. m = 2 * (IF Hexadecimal(a) THEN 1 ELSE 0) + n
    <3>1. CASE Hexadecimal(a) BY <2>1, <3>1
    <3>2. CASE ~ Hexadecimal(a) BY <2>1, <3>2
    <3> QED BY <3>1, <3>2
  <2> QED BY <2>2 DEF m, n
<1> QED BY <1>1, <1>3, <1>4, <1>5, <1>6 DEF u, w

LEMMA PrintNumberKeeps == ASSUME PrintfInv, PrintNumber PROVE PrintfInv'
<1>1. PICK s \in Seq(Arg), a \in NumArg :
        Taken(format, at, given, out, written, s, a) /\ Under(pc, conv, a)
  BY DEF PrintNumber, PrintfInv, NumberInv
<1> DEFINE B == conv.buffer
           w == Spelled(a)
           z == Prefixed(s)
           h == IF Hexadecimal(a) THEN 1 ELSE 0
           x == Len(B)
           y == Len(out)
<1>2. /\ pc = "print" /\ format' = format /\ given' = given
      /\ \/ /\ Room(x) /\ pc' = "scan" /\ at' = at + 2
            /\ out' = out \o conv.prefix \o B /\ written' = written + x
         \/ ~ Room(x) /\ pc' = "failed" /\ UNCHANGED <<at, out, written>>
  BY DEF PrintNumber
<1>3. /\ format \in Str /\ out \in Seq(Nat) /\ written \in Nat /\ written <= INT_MAX
      /\ INT_MAX \in Nat /\ Len(format) \in Nat /\ at \in Nat /\ 1 <= at /\ given \in Seq(Arg)
  BY Bounds, StrIs DEF PrintfInv, PrintfTypeOK
<1>4. /\ given = Append(s, a) /\ at + 1 <= Len(format) /\ format[at] = Percent
      /\ CharOf(format, at + 1) = Ord[a[1]]
      /\ Ahead(format, s, out, at, Len(s) + 1) /\ written = y - 2 * z
  BY <1>1 DEF Taken
<1>5. conv.prefix = Lead(a) /\ B = Sign(a) \o Digits(a) BY <1>1, <1>2 DEF Under, Fixed
<1>6. /\ B \in Seq(Nat) /\ x \in Nat /\ w \in Seq(Nat) /\ Len(w) = 2 * h + x
      /\ out \o conv.prefix \o B = out \o w
  <2> HIDE DEF B
  <2>1. /\ B \in Seq(Nat) /\ Len(B) \in Nat /\ Spelled(a) \in Seq(Nat)
        /\ Len(Spelled(a)) = 2 * (IF Hexadecimal(a) THEN 1 ELSE 0) + Len(B)
        /\ (out \o Lead(a)) \o B = out \o Spelled(a)
    BY <1>3, <1>5, PrintedIs
  <2> QED BY <1>5, <2>1
<1>7. y \in Nat /\ h \in Nat /\ z \in Nat
  <2>1. y \in Nat BY <1>3, LenProperties
  <2>2. z \in Nat BY PrefixedIs
  <2>3. h \in Nat OBVIOUS
  <2> QED BY <2>1, <2>2, <2>3
<1>9. /\ given \in Seq(Arg) /\ Len(given) = Len(s) + 1 /\ Len(s) \in Nat
      /\ Prefixed(given) = z + h /\ a \in Arg
  <2>1. a \in Arg BY DEF Arg
  <2> HIDE DEF z, h
  <2>2. Prefixed(given) = z + h BY <1>4, <2>1, PrefixedIs DEF z, h
  <2>3. Len(Append(s, a)) = Len(s) + 1 BY <2>1, AppendProperties
  <2> QED BY <1>3, <1>4, <2>1, <2>2, <2>3
<1>10. Ahead(format, given, out, at, Len(s) + 1)
  BY <1>4, <1>9, StandsMore DEF Ahead
<1>11. at \in 1..Len(format) /\ at + 2 \in 1..(Len(format) + 1) BY <1>3, <1>4
<1>12. Stands(format, given, at, Len(s) + 1, w, at + 2, Len(given) + 1)
  <2>1. a[1] \in DOMAIN Ord BY NumArgIs, Letters
  <2>2. Stands(format, Append(s, a), at, Len(s) + 1, w, at + 2, Len(s) + 2)
    BY <1>3, <1>4, <1>9, <1>11, <2>1, ArgStands
  <2>3. Len(s) + 2 = Len(given) + 1 BY <1>9
  <2> HIDE DEF w
  <2> QED BY <1>4, <2>2, <2>3
<1>13. Place(format, given, at + 2, Len(given) + 1)
  <2>1. at + 2 \in 1..(Len(format) + 2) BY <1>3, <1>11
  <2>2. Len(given) + 1 \in 1..(Len(given) + 1) BY <1>9
  <2> QED BY <2>1, <2>2 DEF Place
<1> HIDE DEF B, w, z, h, x, y
<1>14. CASE /\ Room(x) /\ pc' = "scan" /\ at' = at + 2
            /\ out' = out \o conv.prefix \o B /\ written' = written + x
  <2>1. out' = out \o w BY <1>6, <1>14
  <2>2. out' \in Seq(Nat) /\ Len(out') = y + (2 * h + x)
    BY <1>3, <1>6, <2>1, ConcatProperties DEF y
  <2>3. written' \in Nat /\ written' <= INT_MAX BY <1>3, <1>6, <1>14 DEF Room
  <2>4. PrintfTypeOK' BY <1>2, <1>3, <1>11, <1>14, <2>2, <2>3 DEF PrintfTypeOK
  <2>5. Ahead(format, given, out \o w, at + 2, Len(given) + 1)
    BY <1>3, <1>6, <1>10, <1>12, <1>13, AheadOn
  <2>6. written' = Len(out') - 2 * Prefixed(given)
    <3>1. written' = written + x /\ written = y - 2 * z BY <1>4, <1>14
    <3> DEFINE v == Len(out')
               p == Prefixed(given)
    <3>2. v = y + (2 * h + x) /\ p = z + h BY <1>9, <2>2
    <3> HIDE DEF v, p
    <3>3. written' = v - 2 * p BY <1>6, <1>7, <3>1, <3>2
    <3> QED BY <3>3 DEF v, p
  <2>7. ScanInv' BY <1>2, <1>14, <2>1, <2>5, <2>6 DEF ScanInv
  <2> QED BY <1>14, <2>4, <2>7 DEF PrintfInv, IdleInv, NumberInv, PrintsAsTold
<1>15. CASE ~ Room(x) /\ pc' = "failed" /\ UNCHANGED <<at, out, written>>
  <2>1. PrintfTypeOK' BY <1>2, <1>15 DEF PrintfInv, PrintfTypeOK
  <2> DEFINE t == Texts(format, given)[1][1]
             u == Len(t)
  <2>2. IsPrefix(out, t) /\ u \in Nat /\ u >= Len(out) + Len(w)
    BY <1>3, <1>6, <1>9, <1>10, <1>12, <1>13, AheadBegins
  <2>3. Expansion' = t BY <1>2 DEF Expansion
  <2> HIDE DEF t
  <2>4. Counting' = u - 2 * (z + h) BY <1>2, <1>9, <2>3 DEF Counting
  <2>5. u >= y + (2 * h + x) BY <1>6, <2>2 DEF y
  <2>6. ~ (x <= INT_MAX - written) /\ written = y - 2 * z BY <1>4, <1>15 DEF Room
  <2> HIDE DEF u
  <2>7. Counting' > INT_MAX BY <1>3, <1>6, <1>7, <2>2, <2>4, <2>5, <2>6
  <2>8. PrintsAsTold' BY <1>15, <2>2, <2>3, <2>7 DEF PrintsAsTold
  <2> QED BY <1>15, <2>1, <2>8 DEF PrintfInv, IdleInv, NumberInv, ScanInv
<1> QED BY <1>2, <1>14, <1>15

LEMMA EndKeeps == ASSUME PrintfInv, End PROVE PrintfInv'
<1>1. /\ pc = "scan" /\ CharOf(format, at) = 0 /\ pc' = "done"
      /\ UNCHANGED <<format, at, given, out, written, conv>>
  BY DEF End, Char
<1>2. PrintfTypeOK' BY <1>1 DEF PrintfInv, PrintfTypeOK
<1>3. /\ format \in Str /\ at \in 1..(Len(format) + 1) /\ given \in Seq(Arg) /\ out \in Seq(Nat)
      /\ Len(format) \in Nat /\ Len(given) \in Nat
      /\ Ahead(format, given, out, at, Len(given) + 1)
      /\ written = Len(out) - 2 * Prefixed(given)
  BY <1>1, StrIs DEF PrintfInv, PrintfTypeOK, ScanInv
<1>4. at > Len(format)
  <2>1. \A k \in 1..Len(format) : format[k] # 0 BY <1>3, StrIs
  <2> QED BY <1>1, <1>3, <2>1 DEF CharOf
<1>5. at \in 1..(Len(format) + 2) /\ Len(given) + 1 \in 1..(Len(given) + 1) BY <1>3
<1>6. Texts(format, given)[at][Len(given) + 1] = <<>> BY <1>3, <1>4, <1>5, TextEnd
<1>7. Extends(given, given) BY ExtendsSelf
<1>8. Texts(format, given)[1][1] = out \o <<>> BY <1>3, <1>6, <1>7 DEF Ahead, Stands
<1>9. Expansion' = out BY <1>1, <1>3, <1>8, ConcatEmptySeq DEF Expansion
<1>10. Counting' = written BY <1>1, <1>3, <1>9 DEF Counting
<1>11. PrintsAsTold' BY <1>1, <1>9, <1>10 DEF PrintsAsTold
<1> QED BY <1>1, <1>2, <1>11 DEF PrintfInv, IdleInv, ScanInv, NumberInv

LEMMA ReturnKeeps == ASSUME PrintfInv, PrintfReturn PROVE PrintfInv'
<1>1. /\ pc' = "idle" /\ format' = <<>> /\ at' = 1 /\ given' = <<>> /\ out' = <<>> /\ written' = 0
  BY DEF PrintfReturn
<1>2. <<>> \in Str /\ <<>> \in Seq(Arg) /\ <<>> \in Seq(Nat) /\ Len(<<>>) = 0 BY DEF Str
<1>3. PrintfTypeOK' BY <1>1, <1>2, Bounds DEF PrintfTypeOK
<1> QED BY <1>1, <1>3 DEF PrintfInv, IdleInv, ScanInv, NumberInv, PrintsAsTold

LEMMA CallKeeps ==
  ASSUME PrintfInv, pc = "idle", NEW f \in Formats, PrintfCall(f)
  PROVE  PrintfInv'
<1>1. /\ pc' = "scan" /\ format' = f /\ UNCHANGED <<at, given, out, written, conv>>
      /\ at = 1 /\ given = <<>> /\ out = <<>> /\ written = 0
  BY DEF PrintfCall, PrintfInv, IdleInv
<1>2. f \in Str BY PrintfAssumption DEF Str
<1>3. 1 \in 1..(Len(f) + 1) BY <1>2, StrIs
<1>4. PrintfTypeOK' BY <1>1, <1>2, <1>3 DEF PrintfInv, PrintfTypeOK
<1>5. Ahead(f, <<>>, <<>>, 1, 1) BY <1>2, AheadStart
<1>6. Prefixed(<<>>) = 0
  <2>1. {k \in DOMAIN <<>> : <<>>[k][1] \in {"x", "X"}} = {} OBVIOUS
  <2> QED BY <2>1, FS_EmptySet DEF Prefixed
<1>7. Len(<<>>) = 0 OBVIOUS
<1>8. ScanInv' BY <1>1, <1>5, <1>6, <1>7 DEF ScanInv
<1> QED BY <1>1, <1>4, <1>8 DEF PrintfInv, IdleInv, NumberInv, PrintsAsTold

\* Every step of printf keeps the invariant.
LEMMA PrintfKeeps == ASSUME PrintfInv, PrintfNext PROVE PrintfInv'
<1>1. CASE PrintfStep
  <2>1. CASE Literal BY <2>1, LiteralKeeps
  <2>2. CASE Taking
    <3>1. CASE \E l \in Chars : Text("c", <<l>>)
      <4>1. PICK l \in Chars : Text("c", <<l>>) BY <3>1
      <4>2. l \in Nat BY PrintfAssumption
      <4>3. <<l>> \in Seq(Nat) /\ <<"c", <<l>>>> \in Arg BY <4>2 DEF Arg
      <4> QED BY <4>1, <4>3, TextKeeps
    <3>2. CASE \E s \in Strings : Text("s", s)
      <4>1. PICK s \in Strings : Text("s", s) BY <3>2
      <4>2. s \in Seq(Nat \ {0}) BY PrintfAssumption
      <4>3. s \in Seq(Nat) BY <4>2, SeqMonotonic
      <4>4. <<"s", s>> \in Arg BY DEF Arg
      <4> QED BY <4>1, <4>3, <4>4, TextKeeps
    <3>3. CASE \E num \in Ints : Signed(num) BY <3>3, SignedKeeps
    <3>4. CASE \E num \in Uints : Unsigned(num) BY <3>4, UnsignedKeeps
    <3>5. CASE \E num \in Uints : \E letter \in {"x", "X"} : Hex(letter, num)
      BY <3>5, HexKeeps
    <3> QED BY <2>2, <3>1, <3>2, <3>3, <3>4, <3>5 DEF Taking
  <2>3. CASE Converting
    BY <2>3, DigitKeeps, SwapKeeps, ReversedKeeps, PrintNumberKeeps DEF Converting
  <2>4. CASE Other BY <2>4, OtherKeeps
  <2>5. CASE End BY <2>5, EndKeeps
  <2>6. CASE PrintfReturn BY <2>6, ReturnKeeps
  <2> QED BY <1>1, <2>1, <2>2, <2>3, <2>4, <2>5, <2>6 DEF PrintfStep
<1>2. CASE pc = "idle" /\ \E f \in Formats : PrintfCall(f) BY <1>2, CallKeeps
<1> QED BY <1>1, <1>2 DEF PrintfNext

LEMMA PrintfStutters == ASSUME PrintfInv, UNCHANGED printfVars PROVE PrintfInv'
<1>1. UNCHANGED <<pc, format, at, given, out, written, conv>> BY DEF printfVars
<1>2. PrintfTypeOK' /\ IdleInv' /\ ScanInv'
  BY <1>1 DEF PrintfInv, PrintfTypeOK, IdleInv, ScanInv
<1>3. NumberInv' BY <1>1 DEF PrintfInv, NumberInv
<1>4. Expansion' = Expansion BY <1>1 DEF Expansion
<1>5. Counting' = Counting BY <1>1, <1>4 DEF Counting
<1>6. PrintsAsTold' BY <1>1, <1>4, <1>5 DEF PrintfInv, PrintsAsTold
<1> QED BY <1>2, <1>3, <1>6 DEF PrintfInv

------------------------------------------------------------------------------
(* The theorems                                                            *)

\* The inductive invariant of printf holds in every state of the library.
THEOREM PrintfInductive == Spec => []PrintfInv
<1>1. Init => PrintfInv BY PrintfInitInv DEF Init
<1>2. PrintfInv /\ [Next]_vars => PrintfInv'
  <2> SUFFICES ASSUME PrintfInv, [Next]_vars PROVE PrintfInv' OBVIOUS
  <2>1. PrintfNext \/ UNCHANGED printfVars BY DEF Next, vars
  <2> QED BY <2>1, PrintfKeeps, PrintfStutters
<1> QED BY <1>1, <1>2, PTL DEF Spec

\* printf passes to putchar what its format says, for formats and arguments of
\* any length and integers of any width, and returns its length; it gives up
\* only where that length has no int, and never for want of room in a buffer.
THEOREM AlwaysPrintsAsTold == Spec => []PrintsAsTold
<1>1. PrintfInv => PrintsAsTold BY DEF PrintfInv
<1> QED BY <1>1, PrintfInductive, PTL
==============================================================================
