--------------------------- MODULE MCAddressGuard ---------------------------
(* A small instance of AddressGuard for TLC: IPv4 addresses at the borders  *)
(* of every block, and IPv6 addresses of every form around them.            *)
EXTENDS AddressGuard

V4Borders ==
  {<<a, b, c, 1>> :
     a \in {0, 1, 9, 10, 11, 99, 100, 101, 126, 127, 128, 168, 169, 172, 192,
            198, 203, 223, 224, 239, 240, 255},
     b \in {0, 15, 16, 17, 18, 19, 20, 31, 32, 51, 63, 64, 127, 128, 168, 254},
     c \in {0, 2, 100, 113}}

\* One IPv4 address of each kind, to be embedded.
V4Samples ==
  {<<8, 8, 8, 8>>, <<10, 0, 0, 1>>, <<127, 0, 0, 1>>, <<169, 254, 169, 254>>,
   <<100, 127, 1, 1>>, <<0, 0, 0, 2>>, <<203, 0, 113, 9>>}

\* An IPv6 address that begins with `head` and ends in `tail`.
Padded(head, tail) ==
  [i \in 1 .. 16 |->
     IF i <= Len(head) THEN head[i]
     ELSE IF i > 16 - Len(tail) THEN tail[i - (16 - Len(tail))] ELSE 0]

Db8(n) == Padded(<<32, 1, 13, 184, n>>, <<>>)

\* `a` with `w` put where a prefix of length `len` embeds it.
Embed(a, len, w) ==
  [i \in 1 .. 16 |-> IF \E k \in 1 .. 4 : Layout(len)[k] = i
                       THEN w[CHOOSE k \in 1 .. 4 : Layout(len)[k] = i] ELSE a[i]]

MCCidrs ==
  {[prefix |-> Db8(n), len |-> 32 + 8 * n] : n \in 0 .. 4}
    \cup {[prefix |-> Padded(<<0, 100, 255, 155, 0, 1>>, <<7>>), len |-> 96],
          [prefix |-> Padded(<<253>>, <<>>), len |-> 32],
          [prefix |-> Db8(0), len |-> 33]}

MCAddresses ==
  V4Borders
    \cup UNION {{Padded(<<>>, <<255, 255>> \o w), Padded(<<>>, w),
                 Padded(<<32, 2>> \o w, <<>>), Padded(<<0, 100, 255, 155>>, w),
                 Padded(<<0, 100, 255, 155>>, <<1>> \o w),
                 Padded(<<32, 3>> \o w, <<>>)} : w \in V4Samples}
    \cup {Embed(c.prefix, c.len, w) :
            c \in {d \in MCCidrs : d.len # 33}, w \in V4Samples}
    \cup {Padded(<<a, b>>, <<1>>) : a \in {251, 252, 253, 254, 255}, b \in {0, 127, 128, 191, 192}}
    \cup {Localhost, Unspecified}
=============================================================================
