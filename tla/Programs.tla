------------------------------- MODULE Programs -------------------------------
(***************************************************************************)
(* Small programs of examples/, memory/, testing-concrete/ and             *)
(* benchmarks/ghostrider/ whose leaks the tools are tried on, each as the  *)
(* instructions it executes for a secret.  An instruction has the source   *)
(* line as its address and the accesses <<object, index>> it makes;        *)
(* instructions that neither branch nor index by a secret are left out.    *)
(* The widths, table sizes and rounds of the programs are constants.  Used *)
(* by TLC only (Bitwise).                                                  *)
(***************************************************************************)
EXTENDS Integers, Sequences, Bitwise

CONSTANTS
  Width,    \* bits of a machine word, a power of two (32 and 64)
  ArcSize,  \* entries of the state of the ARC4 toy (16)
  KeyLen,   \* bytes of its key (8)
  Rounds    \* iterations of the two cf_ toys (192 and MOD_ROUNDS)

ASSUME ProgramsAssumption ==
  /\ Width \in {4, 8, 16} /\ ArcSize \in Nat \ {0, 1}
  /\ KeyLen \in Nat \ {0} /\ Rounds \in Nat

Executed(line, ops) == <<[ip |-> line, ops |-> ops]>>
Read(a, i)          == [kind |-> "R", at |-> <<a, i>>]
Write(a, i)         == [kind |-> "W", at |-> <<a, i>>]

Go(line)          == Executed(line, << >>)
Load(line, a, i)  == Executed(line, <<Read(a, i)>>)
Store(line, a, i) == Executed(line, <<Write(a, i)>>)

Word == 2^Width

-----------------------------------------------------------------------------
(* Table lookups and branches on one secret *)

\* the branch on bit 0, then three stores
Memory(sec, line) ==
  LET s == sec % 4 IN
    Go(line)
      \o (IF s % 2 = 1 THEN Store(line + 2, "a", s % 2)
                              \o Store(line + 3, "a", 2 * (s \div 2))
                              \o Store(line + 4, "a", s)
                       ELSE << >>)
      \o Go(line + 7)

Memory1(sec)       == Memory(sec, 12)
Memory1Binsec(sec) == Memory(sec, 11)

\* example.c: the innermost conditions guard nothing
Example(pub, sec) ==
  Go(9)
    \o (IF sec <= 0 THEN << >>
        ELSE Go(11) \o IF sec > pub THEN Go(13) ELSE Store(18, "sec", 0) \o Go(19))
    \o Go(23)

\* toy_binsec_wrong_location.c with REPLAY; setup is what its arguments are
WrongLocation(setup, secret) ==
  Go(82)
    \o CASE setup = "argc"  -> Go(83)
         [] setup = "short" -> Go(85) \o Go(86)
         [] setup = "ok"    -> Go(85) \o Load(99, "table4", secret % 4)
                                 \o Load(100, "table4", (secret + 1) % 4) \o Go(102)

AbacusMissed(secret) ==
  Load(30, "lookup_table", secret % 64) \o Store(30, "sink", 0) \o Load(31, "sink", 0)

\* foo is called with the public value, which is positive, and with the secret
TargetTrue(secret) ==
  LET foo(x) == Go(16) \o IF x > 0 THEN Go(17) ELSE Go(19)
  IN Go(26) \o foo(1) \o Go(27) \o foo(secret) \o Go(28)

\* toy_selfcomp_arc4_like.c: one swap per entry of the state
ArcFour(secret) ==
  LET key(k) == (secret \div ArcSize^k) % ArcSize
      swap[i \in 0..ArcSize] ==
        IF i = 0 THEN [state |-> [k \in 0..(ArcSize - 1) |-> k], j |-> 0, trace |-> << >>]
        ELSE LET r == swap[i - 1]
                 n == i - 1
                 j == (r.j + r.state[n] + key(n % KeyLen)) % ArcSize
             IN [state |-> [r.state EXCEPT ![n] = r.state[j], ![j] = r.state[n]], j |-> j,
                 trace |-> r.trace \o Go(27)
                             \o Load(30, "state", n) \o Load(30, "key", n % KeyLen)
                             \o Load(31, "state", n) \o Load(32, "state", j)
                             \o Store(32, "state", n) \o Store(33, "state", j)]
  IN swap[ArcSize].trace \o Load(36, "state", 0)

\* mix_word of toy_aes_big_like.c: four lookups in one statement, by the digits of the secret
MixWord(secret) ==
  Load(96, "sbox", secret % 2) \o Load(97, "sbox", (secret \div 2) % 2)
    \o Load(98, "sbox", (secret \div 4) % 2) \o Load(99, "sbox", secret \div 8)

\* histogram.c, one element: the counter is read and written by one instruction
Histogram(v) ==
  LET t == IF v > 0 THEN v ELSE -v
  IN Load(14, "a", 0) \o Go(15) \o (IF v > 0 THEN << >> ELSE Go(16))
       \o Executed(17, <<Read("c", t), Write("c", t)>>) \o Go(19)

\* max of findmax.c, in a build whose conditional move takes h[i] from memory: the move
\* is executed in every iteration, its access only when the element is the largest yet
FindMax(h) ==
  LET max(i) == IF i = 0 THEN 0 ELSE IF h[i] > 0 THEN h[i] ELSE 0
      step(i) == Go(10) \o Load(11, "h", i)
                   \o Executed(11, IF h[i] > max(i - 1) THEN <<Read("h", i)>> ELSE << >>)
                   \o Go(12)
  IN step(1) \o step(2) \o Go(10) \o Go(14)

-----------------------------------------------------------------------------
(* Arithmetic, then one branch *)

\* cf_favored_branch_maze_cross_tool.c with the secret in all of its bytes
BranchMaze(secret) ==
  LET acc[r \in 0..Rounds] ==
        IF r = 0 THEN 1
        ELSE LET a == (acc[r - 1] * 33 + secret + (r - 1)) % Word IN a ^^ (a \div 128)
  IN Go(29) \o Go(37) \o IF acc[Rounds] % 2 = 0 THEN Go(38) ELSE Go(41)

\* cf_symbolic_mod_chain_branch.c: secret[0] and secret[1] are the halves of the secret
ModChain(secret) ==
  LET modulus == (secret \div Word) | 1
      chain[r \in 0..Rounds] ==
        IF r = 0 THEN [result |-> 1, base |-> secret % Word]
        ELSE LET c == chain[r - 1] IN
               [result |-> ((c.result * c.base + r) % Word) % modulus,
                base   |-> ((c.base * c.base + 3) % Word) % modulus]
  IN Go(31) \o Go(36) \o IF chain[Rounds].result % 2 # 0 THEN Go(38) ELSE Go(40)

-----------------------------------------------------------------------------
(* is_bit_set.c *)

\* without the step that collects the bits of x in the top one
MaskOfTopBit(x) == (0 - (x \div 2^(Width - 1))) % Word

\* all ones if x is not zero: the two lines that compute mask
MaskOf(x) == (0 - (((0 - x) % Word) \div 2^(Width - 1))) % Word

\* the checks of the upper half, quarter, ..., bit
BN_num_bits_word_mimic(l0) ==
  LET check[k \in 0..Width] ==   \* k halvings of the word
        IF k = 0 THEN [l |-> l0, bits |-> IF l0 # 0 THEN 1 ELSE 0]
        ELSE LET c == check[k - 1]
                 shift == Width \div 2^k
                 x == c.l \div 2^shift
                 mask == MaskOf(x)
             IN IF shift = 0 THEN c
                ELSE [l |-> c.l ^^ ((x ^^ c.l) & mask), bits |-> c.bits + (shift & mask)]
  IN check[Width].bits

\* the highest word that is not zero, -1 if there is none
TopWord(a, size) ==
  LET scan[i \in -1..(size - 1)] == IF i = -1 \/ a[i] # 0 THEN i ELSE scan[i - 1]
  IN scan[size - 1]

bitLen_openSSL_style(a, size) ==
  LET i == TopWord(a, size)
  IN IF i < 0 THEN 0 ELSE i * Width + BN_num_bits_word_mimic(a[i])

isBitSet(a, n) == (a[n \div Width] \div 2^(n % Width)) % 2

\* main sets the top bit of in[0]
BitInput(secret) ==
  [k \in 0..1 |-> IF k = 0 THEN (secret % Word) | 2^(Width - 1) ELSE (secret \div Word) % Word]

BitIndex(secret) == bitLen_openSSL_style(BitInput(secret), 2) - 1

IsBitSet(secret) ==
  LET in == BitInput(secret)
      i  == TopWord(in, 2)
  IN Load(71, "in", 1) \o (IF i = 1 THEN << >> ELSE Go(72) \o Load(71, "in", 0))
       \o Go(75) \o Load(78, "in", i)
       \o Load(14, "in", BitIndex(secret) \div Width) \o Go(94) \o Go(98)

\* is_bit_set_no_sc.c compares the bit of two inputs in one execution
BitsCompared(secret1, secret2) ==
  isBitSet(BitInput(secret1), BitIndex(secret1)) = isBitSet(BitInput(secret2), BitIndex(secret2))

-----------------------------------------------------------------------------
(* What there is to replay *)

Instructions(p, with, s) ==
  CASE p = "memory_1"        -> Memory1(s)
    [] p = "memory_1_binsec" -> Memory1Binsec(s)
    [] p = "example"         -> Example(1, s)
    [] p = "wrong_location"  -> WrongLocation(with, s)
    [] p = "abacus_missed"   -> AbacusMissed(s)
    [] p = "target_true"     -> TargetTrue(s)
    [] p = "arc4"            -> ArcFour(s)
    [] p = "maze"            -> BranchMaze(s)
    [] p = "mod_chain"       -> ModChain(s)
    [] p = "is_bit_set"      -> IsBitSet(s)
    [] p = "mix_word"        -> MixWord(s)
    [] p = "histogram"       -> Histogram(s)
    [] p = "findmax"         -> FindMax(<<s \div 4, s % 4>>)

\* only the toy checks what it is given
Setups(p) == IF p = "wrong_location" THEN {"ok", "argc", "short"} ELSE {"ok"}

\* for each program and each way its files suit it, what it does with its secrets
ExecutionsOf(secrets) ==
  [p \in DOMAIN secrets |->
     [w \in Setups(p) |->
        {[secret |-> s, code |-> Instructions(p, w, s)] : s \in secrets[p]}]]
=============================================================================
