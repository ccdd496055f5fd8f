----------------------------- MODULE BlockBuild -----------------------------
(***************************************************************************)
(* How a template becomes a job, a solution a header, and a solved job a   *)
(* block (internal/mining/jobs.go, internal/stratum/server.go,             *)
(* internal/blockbuild, internal/mergemining, internal/datum/wire).        *)
(* Operators only: ShareIntake hands out, judges and submits with them.    *)
(*                                                                         *)
(* The header is put together in three places: by the miner from what      *)
(* mining.notify says, by the stratum to judge the share, and by           *)
(* blockbuild to submit the block; the proof for the 1175 node is a        *)
(* fourth.  What the three must agree on is kept: the order of a hash's    *)
(* bytes, the shape of the merkle tree, which bits of the version a miner  *)
(* may choose, and how many bytes the coinbase's script says it has.       *)
(*                                                                         *)
(* A hash is the tuple of what it hashes.  A transaction is a sequence of  *)
(* fields <<name, bytes, value>>.  A version is the set of its one bits.   *)
(***************************************************************************)
EXTENDS TidesSplit
LOCAL INSTANCE SequencesExt

CONSTANTS
    RollMask,    \* VersionRollingMask: the bits miners may choose
    MaxRoll,     \* seconds a share's time may be past its job's (7000)
    NoHash       \* no 1175 work

Bytes(fs)  == FoldLeft(LAMBDA n, f : n + f[2], 0, fs)
Value(out) == FoldLeft(LAMBDA n, o : n + o.sats, 0, out)
Fees(txs)  == FoldLeft(LAMBDA n, t : n + t.fee, 0, txs)

----------------------------------------------------------------------------
(* Hashes and the merkle tree.                                              *)

Leaf(tx)   == <<"tx", tx>>
Node(l, r) == <<"node", l, r>>

\* One level up, the last of an odd number paired with itself.
Pairs(hs) == [i \in 1..((Len(hs) + 1) \div 2) |->
                 Node(hs[2 * i - 1], hs[IF 2 * i <= Len(hs) THEN 2 * i ELSE 2 * i - 1])]

\* buildMerkleBranches: the coinbase's sibling on each level, from the other transactions.
Branches(hs) ==
    LET level[k \in Nat] == IF k = 0 THEN hs ELSE Pairs(Tail(level[k - 1]))
    IN  [k \in 1..Log2Up(Len(hs) + 1) |-> Head(level[k - 1])]

Climb(coinbase, branches) == FoldLeft(Node, Leaf(coinbase), branches)

\* The tree as the node builds it over a whole block.
TreeRoot(hs) ==
    LET level[k \in Nat] == IF k = 0 THEN hs ELSE Pairs(level[k - 1])
    IN  level[Log2Up(Len(hs))][1]

\* getblocktemplate's hash to mining.notify's: all of it reversed, then each word. A word has 2
\* bytes here, a hash 2 words.
Word == 2
SwapWords(h) == [i \in 1..Len(h) |-> h[Word * ((i - 1) \div Word) + Word - ((i - 1) % Word)]]

StratumPrev(h) == SwapWords(Reverse(h))

----------------------------------------------------------------------------
(* The coinbase.                                                            *)

LittleEndian(n) ==
    LET bytes[k \in Nat] == IF k = 0 THEN <<>> ELSE <<k % 256>> \o bytes[k \div 256]
    IN  bytes[n]

\* makeHeightScript: a script number, so a top bit would be its sign.
HeightPush(h) ==
    LET b == LittleEndian(h)
        s == IF b # <<>> /\ Last(b) >= 128 THEN b \o <<0>> ELSE b
    IN  IF h <= 0 THEN <<1, 0>> ELSE <<Len(s)>> \o s

\* What a script number says.
PushedHeight(push) ==
    LET b == Tail(push)
        n == FoldRight(LAMBDA x, y : x + 256 * y, b, 0)
    IN  IF Last(b) >= 128 THEN -n ELSE n

\* The tag chosen in Settings: printable, of at most 24 bytes, and not empty.
DefaultTag == <<47, 47, 102, 111, 114, 103, 101, 115, 111, 108, 111, 47, 47>>
CoinbaseTag(raw) ==
    LET t == SelectSeq(raw, LAMBDA c : 32 <= c /\ c < 127)
    IN  IF t = <<>> THEN DefaultTag ELSE SubSeq(t, 1, IF Len(t) < 24 THEN Len(t) ELSE 24)

\* mergemining.BuildCommitment: magic, hash, tree size and nonce.
Commitment(aux) == IF aux = NoHash THEN <<>> ELSE << <<"commitment", 44, aux>> >>

En1Size == 4
En2Size == 8
Reserve == En1Size + En2Size

\* The halves either side of the extranonce; the script's length is written before its parts are.
Coinbase1(height, tag, commitment) ==
    LET push == HeightPush(height)
    IN  << <<"prefix", 41, 0>>,
           <<"length", 1, (Len(push) + Reserve + Len(tag) + Bytes(commitment)) % 256>>,
           <<"push", Len(push), push>> >>
Coinbase2(tag, commitment, outs) ==
    << <<"tag", Len(tag), tag>> >> \o commitment \o << <<"sequence", 4, 0>>, <<"outputs", 1, outs>>, <<"lock", 4, 0>> >>

Coinbase(job, en1, en2) ==
    job.cb1 \o << <<"en1", En1Size, en1>>, <<"en2", En2Size, en2>> >> \o job.cb2

----------------------------------------------------------------------------
(* Jobs.  A template t is what getblocktemplate gives.                      *)

\* What both kinds of job take from the template.
JobOn(t, txs) ==
    [prev |-> StratumPrev(t.prev), orig |-> t.prev, branches |-> Branches([i \in 1..Len(txs) |-> Leaf(txs[i])]),
     version |-> t.version, bits |-> t.bits, time |-> t.time, txs |-> txs, height |-> t.height]

With(job, cb1, cb2, value, aux, tides) ==
    [f \in DOMAIN job \cup {"cb1", "cb2", "value", "aux", "tides"} |->
        CASE f = "cb1" -> cb1 [] f = "cb2" -> cb2 [] f = "value" -> value
          [] f = "aux" -> aux [] f = "tides" -> tides [] OTHER -> job[f]]

CreateJob(t, payTo, tag, aux) ==
    LET c == Commitment(aux)
        g == CoinbaseTag(tag)
    IN  With(JobOn(t, t.txs), Coinbase1(t.height, g, c), Coinbase2(g, c, <<Output(payTo, t.value)>>),
             t.value, aux, FALSE)

\* A registration's: the halves it registered, its transactions or none, and no 1175 work.
CreateJobWithCoinbase(t, reg) ==
    With(JobOn(t, reg.txs), reg.cb1, reg.cb2, reg.value, NoHash, TRUE)

\* wire.BuildCoinbase: the DATUM layout, with no room for a commitment; none where the tag is too
\* long or an output pays nothing.
BuildCoinbase(height, tag, outs) ==
    LET push == HeightPush(height)
    IN  IF Len(tag) > MaxTag \/ \E o \in Range(outs) : o.sats <= 0 THEN {}
        ELSE {[cb1 |-> << <<"prefix", 41, 0>>, <<"length", 1, Len(push) + Reserve + Len(tag)>>,
                          <<"push", Len(push), push>> >>,
               cb2 |-> << <<"tag", Len(tag), tag>>, <<"sequence", 4, 0>>, <<"outputs", 1, outs>>,
                          <<"lock", 4, 0>> >>]}

\* The halves of a coinbase that pays the pool's split.
BuildJob(w, height, value, finder, tag) == BuildCoinbase(height, tag, Payouts(value, w, finder))

\* register: all the template's transactions, or none where the pool refuses them.  The
\* registrations it may be: one, or none where no coinbase can be built.
Register(t, w, finder, tag, maxDiff, all) ==
    LET value == RegisterValue(t.value, Fees(t.txs), all)
        exp   == CommitExp(t.bits, maxDiff)
        g     == IF exp = {} THEN CoinbaseTag(tag) ELSE CommitShareDiff(CoinbaseTag(tag), CHOOSE e \in exp : TRUE)
    IN  {[txs |-> IF all THEN t.txs ELSE <<>>, value |-> value, exp |-> exp, cb1 |-> c.cb1, cb2 |-> c.cb2] :
            c \in BuildJob(w, t.height, value, finder, g)}

----------------------------------------------------------------------------
(* Headers.                                                                 *)

\* A miner's optional version bits: anything that is not at most 8 hex digits means no rolling.
VersionBits(raw) == IF raw.hex THEN {raw.bits} ELSE {}

RollVersion(version, vb) ==
    IF vb = {} THEN version ELSE (version \ RollMask) \cup ((UNION vb) \cap RollMask)

NtimeInRange(time, jobTime) == jobTime <= time /\ time <= jobTime + MaxRoll

\* buildBlockHeader, as validateShare calls it.
Header(job, en1, s) ==
    [version |-> RollVersion(job.version, VersionBits(s.vb)), prev |-> SwapWords(job.prev),
     root |-> Climb(Coinbase(job, en1, s.nonce), job.branches), time |-> s.time, bits |-> job.bits,
     nonce |-> s.nonce]

\* (mutant of Block) the block's header takes the job's version.
BlockUnrolled(job, en1, s) ==
    [header |-> [version |-> job.version, prev |-> Reverse(job.orig),
                 root |-> Climb(Coinbase(job, en1, s.nonce), job.branches), time |-> s.time,
                 bits |-> job.bits, nonce |-> s.nonce],
     coinbase |-> Coinbase(job, en1, s.nonce), txs |-> job.txs]

\* blockbuild.Block.
Block(job, en1, s) ==
    [header |-> [version |-> RollVersion(job.version, VersionBits(s.vb)), prev |-> Reverse(job.orig),
                 root |-> Climb(Coinbase(job, en1, s.nonce), job.branches), time |-> s.time,
                 bits |-> job.bits, nonce |-> s.nonce],
     coinbase |-> Coinbase(job, en1, s.nonce), txs |-> job.txs]

\* AssembleAuxPowHex.
AuxPow(job, en1, s) ==
    [coinbase |-> Coinbase(job, en1, s.nonce), branches |-> job.branches, header |-> Header(job, en1, s)]

\* The mask a miner and the server agree on: an unreadable request is no opinion.
AgreedMask(asked) == IF asked.hex THEN RollMask \cap asked.bits ELSE RollMask

\* A miner that rolls keeps to the mask, and submits its bits alone or the whole version; one that
\* does not submits nothing or text.
MinerVersion(job, mask, roll) == IF roll.sends \in {"bits", "whole"} THEN (job.version \ mask) \cup (roll.bits \cap mask) ELSE job.version
Submitted(job, mask, roll) ==
    [hex |-> roll.sends \in {"bits", "whole"},
     bits |-> IF roll.sends = "whole" THEN MinerVersion(job, mask, roll) ELSE roll.bits \cap mask]

\* The miner's own header, from mining.notify.
MinerHeader(job, en1, s, version) ==
    [version |-> version, prev |-> SwapWords(job.prev), root |-> Climb(Coinbase(job, en1, s.nonce), job.branches),
     time |-> s.time, bits |-> job.bits, nonce |-> s.nonce]

----------------------------------------------------------------------------
(* What the nodes and the pool check.                                       *)

\* The fields before the input's sequence and after the script's length are the script.
ScriptOf(cb) == SelectSeq(cb, LAMBDA f : f[1] \in {"push", "en1", "en2", "tag", "commitment"})
FieldOf(cb, name) == (CHOOSE i \in DOMAIN cb : cb[i][1] = name)
ValueOf(cb, name) == cb[FieldOf(cb, name)][3]

\* The script is as long as it says and may be, its height the block's, its outputs what is earned.
CoinbaseHolds(cb, height, earned) ==
    /\ Bytes(ScriptOf(cb)) = ValueOf(cb, "length") /\ Bytes(ScriptOf(cb)) \in 2..100
    /\ PushedHeight(ValueOf(cb, "push")) = height
    /\ Value(ValueOf(cb, "outputs")) <= earned

\* A block on the tip tip: the node's own header fields over the whole tree, and a good coinbase.
NodeAccepts(b, tip, height, subsidy) ==
    /\ b.header.prev = Reverse(tip)
    /\ b.header.root = TreeRoot([i \in 1..(Len(b.txs) + 1) |-> Leaf(IF i = 1 THEN b.coinbase ELSE b.txs[i - 1])])
    /\ CoinbaseHolds(b.coinbase, height, subsidy + Fees(b.txs))

\* The 1175 node's: the commitment in the coinbase, the coinbase in the header.
AuxNodeAccepts(p, aux) ==
    /\ p.header.root = Climb(p.coinbase, p.branches)
    /\ \E i \in DOMAIN p.coinbase : p.coinbase[i] = <<"commitment", 44, aux>>

\* ParseCoinbase: where the extranonce is in a registration, and that its tag is what is left.
Parses(reg, height) ==
    LET length == ValueOf(reg.cb1, "length")
        push   == ValueOf(reg.cb1, "push")
        tagLen == length - Len(push) - Reserve
    IN  /\ length <= 100 /\ tagLen \in 0..MaxTag /\ tagLen = Len(ValueOf(reg.cb2, "tag"))
        /\ push = HeightPush(PushedHeight(push)) /\ PushedHeight(push) = height

PaysExactly(reg, want) == ValueOf(reg.cb2, "outputs") = want

\* The tag's last byte is the difficulty the registration says it commits to.
CommittedShareDiff(reg) ==
    LET tag == ValueOf(reg.cb2, "tag") IN \A e \in reg.exp : tag # <<>> /\ Last(tag) = e

PoolAccepts(reg, height, want) == Parses(reg, height) /\ PaysExactly(reg, want) /\ CommittedShareDiff(reg)

=============================================================================
