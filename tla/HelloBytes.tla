----------------------------- MODULE HelloBytes -----------------------------
(* What a reassembler of ClientHello messages promises, whatever it is built *)
(* from: it collects bytes of each connection's hello, it may at any moment  *)
(* give up and forget what it has of a connection, and it hands a hello over *)
(* in the very step that completes it, never before and never later.         *)
(* Both machines of HelloReasm, for TCP segments and for QUIC CRYPTO         *)
(* fragments, implement it.                                                  *)
EXTENDS Naturals

CONSTANTS Conn,       \* connections
          HelloLen,   \* [Conn -> Nat]: bytes of the hello, 0: no hello at all
          Reach       \* no byte at or past this offset is kept

VARIABLES got,        \* got[c]: offsets of c's hello that are held
          told        \* told[c]: how many hellos of c were handed over (n), and
                      \* which of its bytes the last one has in their place

Whole(c) == 0 .. HelloLen[c] - 1

Complete(c, bytes) == HelloLen[c] > 0 /\ Whole(c) \subseteq bytes

Init == got = [c \in Conn |-> {}] /\ told = [c \in Conn |-> [n |-> 0, bytes |-> {}]]

\* Everyone but c keeps what it has or is forgotten.
OthersMayGo(c) == \A d \in Conn \ {c} : got'[d] \in {got[d], {}}

\* A run of bytes [s, t) arrives for c; what c had may have been forgotten.
Arrives(c, s, t, had) ==
    LET now == had \cup (s .. t - 1) IN
    IF Complete(c, now)
    THEN got'[c] = {} /\ told' = [told EXCEPT ![c] = [n |-> @.n + 1, bytes |-> Whole(c)]]
    ELSE got'[c] = now /\ UNCHANGED told

\* A run may reach as far as the hello, or as far as bytes are kept.
Farthest(c) == IF HelloLen[c] > Reach THEN HelloLen[c] ELSE Reach

Receive(c) ==
    /\ got' \in [Conn -> SUBSET (0 .. Reach)]
    /\ OthersMayGo(c)
    /\ \E s \in 0 .. Farthest(c), t \in 0 .. Farthest(c) :
          \E had \in {got[c], {}} : s < t /\ Arrives(c, s, t, had)

Forget == UNCHANGED told /\ \A c \in Conn : got'[c] \in {got[c], {}}

Next == Forget \/ \E c \in Conn : Receive(c)

Spec == Init /\ [][Next]_<<got, told>>
=============================================================================
