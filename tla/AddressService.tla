---------------------------- MODULE AddressService ----------------------------
(***************************************************************************)
(* ordex/rpc/address.py: addresses are derived per wallet and chain,       *)
(* cached, marked as used, and scanned for balances up to a gap.           *)
(*                                                                         *)
(* An address is its text: <<derivation, chain, index, prefix>>, where the *)
(* prefix is the first eight characters of the wallet's id, or an imported *)
(* one.  AddressInfo objects are shared by the cache and the wallets'      *)
(* lists.  What is done under the lock is one step: nothing there waits.   *)
(***************************************************************************)
EXTENDS ServiceThreads

CONSTANTS
    Owner,          \* wallet ids
    Prefix,         \* Prefix[w]: the first eight characters of w
    Derivation,
    Imported,       \* addresses from elsewhere
    GapLimit,       \* the gap_limit discover is called with
    MaxScan,        \* max_scan
    MaxInfos        \* bound: AddressInfo objects ever made

VARIABLES
    infos,          \* the AddressInfo objects, in the order they were made
    cache,          \* _address_cache: address -> number of the object
    derived,        \* _derived_addresses: wallet -> numbers of the objects
    gapInfo,        \* _gap_info
    funded          \* the addresses with a balance on the node

addressVars == <<infos, cache, derived, gapInfo, funded>>

Chain == {"external", "internal"}

\* _generate_single_address: the index is the position in the call.
Derive(w, chain, derivation, index) ==
    [address |-> <<derivation, chain, index, Prefix[w]>>, chain |-> chain,
     index |-> index, used |-> FALSE]

\* The objects new are cached and put at the end of the wallet's list.
Add(w, new) ==
    LET number(i) == Len(infos) + i
        added == [i \in DOMAIN new |-> number(i)]
    IN /\ Len(infos) + Len(new) <= MaxInfos
       /\ infos' = infos \o new
       /\ cache' = [a \in DOMAIN cache \cup {new[i].address : i \in DOMAIN new} |->
            IF \E i \in DOMAIN new : new[i].address = a
            THEN number(CHOOSE i \in DOMAIN new : new[i].address = a)
            ELSE cache[a]]
       /\ derived' = [derived EXCEPT ![w] = @ \o added]

\* generate.
Generate(t, w, count, chain, derivation) ==
    /\ Add(w, [i \in 1..count |-> Derive(w, chain, derivation, i - 1)])
    /\ Call(t, "generate", Idle)
    /\ UNCHANGED <<gapInfo, funded>>

\* import_address of a text that validate accepts.
ImportAddress(t, w, address) ==
    /\ Add(w, <<[address |-> address, chain |-> "external", index |-> -1, used |-> FALSE]>>)
    /\ Call(t, "import", Idle)
    /\ UNCHANGED <<gapInfo, funded>>

Marked(address) ==
    IF address \in DOMAIN cache THEN [infos EXCEPT ![cache[address]].used = TRUE] ELSE infos

MarkUsed(t, address) ==
    /\ infos' = Marked(address)
    /\ Call(t, "mark", Idle)
    /\ UNCHANGED <<cache, derived, gapInfo, funded>>

NoGap == [external |-> 0, internal |-> 0, synced |-> FALSE]

\* get_gap_info looks without the lock, and stores what it answers.
GetGapInfo(t, w) ==
    /\ Call(t, "gap", IF w \in DOMAIN gapInfo THEN Idle ELSE [at |-> "gapinfo", wallet |-> w])
    /\ UNCHANGED addressVars

StoreGapInfo(t) ==
    LET w == frame[t].wallet
    IN /\ frame[t].at = "gapinfo"
       /\ gapInfo' = [v \in DOMAIN gapInfo \cup {w} |-> IF v = w THEN NoGap ELSE gapInfo[v]]
       /\ Go(t, Idle)
       /\ UNCHANGED <<infos, cache, derived, funded>>

-----------------------------------------------------------------------------
(* discover: a round asks for both chains, each until its gap is reached.   *)
(* Of each chain it remembers the addresses asked and the answers.          *)

Discover(t, w) ==
    /\ Call(t, "discover",
            [at |-> "scan", wallet |-> w, round |-> 0, todo |-> <<"external", "internal">>,
             unused |-> [c \in Chain |-> 0], last |-> [c \in Chain |-> None],
             asked |-> [c \in Chain |-> <<>>], answers |-> [c \in Chain |-> <<>>]])
    /\ UNCHANGED addressVars

\* Mutant: one unused address too many is asked for.
GapPassed(f, chain) == f.unused[chain] > GapLimit

GapReached(f, chain) == f.unused[chain] >= GapLimit

NextRound(f) == [f EXCEPT !.round = @ + 1, !.todo = <<"external", "internal">>]

\* The tests of the loops, and generate of one address, which is asked next.
ScanNext(t) ==
    LET f == frame[t]
        chain == Head(f.todo)
        made == Derive(f.wallet, chain, "bip84", 0)
        finished == f.round >= MaxScan \/ \A c \in Chain : GapReached(f, c)
    IN /\ f.at = "scan"
       /\ CASE f.todo # <<>> /\ (f.todo # <<"external", "internal">> \/ ~finished) ->
                 IF GapReached(f, chain)
                 THEN Go(t, [f EXCEPT !.todo = Tail(@)]) /\ UNCHANGED <<infos, cache, derived>>
                 ELSE
                      /\ Add(f.wallet, <<made>>)
                      /\ Go(t, [f EXCEPT !.at = "balance",
                                         !.asked[chain] = Append(@, made.address)])
            [] f.todo = <<>> -> Go(t, NextRound(f)) /\ UNCHANGED <<infos, cache, derived>>
            [] OTHER -> Go(t, [f EXCEPT !.at = "report"]) /\ UNCHANGED <<infos, cache, derived>>
       /\ UNCHANGED <<gapInfo, funded>>

\* What discover notes of an answer.
Noted(f, paid) ==
    LET chain == Head(f.todo)
        noted == [f EXCEPT !.at = "scan", !.todo = Tail(@),
                           !.answers[chain] = Append(@, paid)]
    IN IF paid THEN [noted EXCEPT !.unused[chain] = 0, !.last[chain] = f.round]
       ELSE [noted EXCEPT !.unused[chain] = @ + 1]

\* The address generated last.
Current(f) == LET asked == f.asked[Head(f.todo)] IN asked[Len(asked)]

\* get_balance, which answers zero when the call raises.
GetBalance(t) ==
    LET f == frame[t]
    IN /\ f.at = "balance"
       /\ \/ Current(f) \in funded /\ Go(t, [f EXCEPT !.at = "paid"])
          \/ Current(f) \notin funded /\ Go(t, Noted(f, FALSE))
          \/ Current(f) \in funded /\ Fail(t, Noted(f, FALSE))
       /\ UNCHANGED addressVars

\* mark_used of an address with a balance.
MarkFound(t) ==
    LET f == frame[t]
    IN /\ f.at = "paid"
       /\ infos' = Marked(Current(f))
       /\ Go(t, Noted(f, TRUE))
       /\ UNCHANGED <<cache, derived, gapInfo, funded>>

\* update_gap_info: a round where nothing was found leaves the old one.
UpdatedGapInfo(w, last) ==
    LET old == IF w \in DOMAIN gapInfo THEN gapInfo[w] ELSE NoGap
        latest(chain) == IF last[chain] = None THEN old[chain] ELSE last[chain]
    IN [v \in DOMAIN gapInfo \cup {w} |->
          IF v = w THEN [external |-> latest("external"), internal |-> latest("internal"),
                         synced |-> TRUE]
          ELSE gapInfo[v]]

\* The end of discover.
Report(t) ==
    LET f == frame[t]
    IN /\ f.at = "report"
       /\ gapInfo' = UpdatedGapInfo(f.wallet, f.last)
       /\ Go(t, [at |-> "discovered", asked |-> f.asked, answers |-> f.answers,
                 last |-> f.last, unused |-> f.unused])
       /\ UNCHANGED <<infos, cache, derived, funded>>

\* The environment: an address is paid, or emptied.
BalanceMoves(address) ==
    /\ funded' = IF address \in funded THEN funded \ {address} ELSE funded \cup {address}
    /\ Outside
    /\ UNCHANGED <<infos, cache, derived, gapInfo>>

Init ==
    /\ infos = <<>>
    /\ cache = <<>>
    /\ derived = [w \in Owner |-> <<>>]
    /\ gapInfo = <<>>
    /\ funded = {}

\* The process ends and starts again: only the node remembers.
Restarted ==
    /\ infos' = <<>>
    /\ cache' = <<>>
    /\ derived' = [w \in Owner |-> <<>>]
    /\ gapInfo' = <<>>
    /\ UNCHANGED funded

Step(t) ==
    ScanNext(t) \/ GetBalance(t) \/ MarkFound(t) \/ Report(t) \/ StoreGapInfo(t)

Request(t) ==
    \E w \in scope.owners :
        \/ \E count \in 1..2, chain \in Chain, d \in Derivation : Generate(t, w, count, chain, d)
        \/ \E a \in Imported : ImportAddress(t, w, a)
        \/ \E a \in DOMAIN cache : MarkUsed(t, a)
        \/ GetGapInfo(t, w)
        \/ Discover(t, w)

-----------------------------------------------------------------------------

\* A run of answers without a balance at the end of s.
UnusedRun(s) == {n \in 0..Len(s) : \A i \in (Len(s) - n + 1)..Len(s) : ~s[i]}

\* discover counts its answers right, whichever addresses they are for: when it
\* has finished, the last GapLimit answers of each chain were without a balance,
\* or it had MaxScan of them; it took no answer more; and its counters agree with
\* them.  Which addresses it asked is the question of DiscoveryScansGap.
DiscoveryCountsAnswers ==
    \A t \in Thread : frame[t].at = "discovered" =>
        \A c \in Chain :
            LET s == frame[t].answers[c]
            IN /\ frame[t].unused[c] \in UnusedRun(s)
               /\ GapLimit \in UnusedRun(s) \/ Len(s) = MaxScan
               /\ \A n \in 0..(Len(s) - 1) : GapLimit \notin UnusedRun(SubSeq(s, 1, n))
               /\ (frame[t].last[c] = None) <=> (\A i \in DOMAIN s : ~s[i])

\* "Discover used addresses in a wallet", "gap_limit: Stop scanning after this
\* many unused" (address.py:403, 407): a discovery that ended before MaxScan
\* rounds had seen GapLimit unused addresses in a row at the end of each chain.
DiscoveryScansGap ==
    \A t \in Thread : frame[t].at = "discovered" =>
        \A c \in Chain :
            LET f == frame[t]
                gap == {i \in DOMAIN f.answers[c] :
                          \A j \in DOMAIN f.answers[c] : j >= i => ~f.answers[c][j]}
            IN \/ Len(f.answers[c]) = MaxScan
               \/ Cardinality({f.asked[c][i] : i \in gap}) >= GapLimit
=============================================================================
