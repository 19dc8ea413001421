--------------------------- MODULE MCBitAssembler ---------------------------
(***************************************************************************)
(* An instance with bytes of 2 bits and words of 4, RAMs of 2 words of 4    *)
(* user and 2 parity bits.  One part of the project is varied at a time:    *)
(* the text of a scan chain or of a memory bank, the ICB before and after   *)
(* the configuration, or the RAMs.                                          *)
(***************************************************************************)
EXTENDS BitAssembler

Title_(of) == [key |-> "title", of |-> of]
Blank == [key |-> "blank"]
Remark == [key |-> "remark"]
Length_(n) == [key |-> "length", number |-> n]
Width_(n, wl, order) == [key |-> "width", number |-> n, wl |-> wl, lsb |-> order]
Format_(known) == [key |-> "format", known |-> known]
Data_(chars) == [key |-> "data", chars |-> chars]

Strings_(chars, n) == [1 .. n -> chars]
LinesOf(texts) == {[k \in DOMAIN text |-> Data_(text[k])] : text \in texts}
Listed(S, n) == UNION {[1 .. k -> S] : k \in 0 .. n}
Prefixed(headers, bodies) == {Text(h \o b) : h \in headers, b \in bodies}

Header_(n, width, order) ==
  <<Title_("fcb"), Remark, Length_(n), Width_(width, n, order)>>

(* Headers that are not in order, and data behind them.                     *)
OddHeaders ==
  { <<Blank, Title_("fcb"), Width_(2, 2, TRUE), Blank, Length_(2)>>,
    <<Title_("fcb"), Length_(2), Width_(2, 1, FALSE)>>,
    <<Title_("fcb"), Length_(2), Title_("fcb"), Format_(TRUE), Width_(2, 2, FALSE)>>,
    <<Title_("fcb"), Length_(2), Length_(2), Width_(2, 2, TRUE)>>,
    <<Title_("fcb"), Width_(2, 0, TRUE), Length_(2)>>,
    <<Title_("fcb"), Length_(2), Width_(2, 2, TRUE), Width_(2, 2, TRUE)>>,
    <<Title_("fcb"), Length_(0), Width_(2, 2, TRUE)>>,
    <<Title_("fcb"), Length_(2)>>, <<Title_("fcb"), Width_(2, 2, TRUE)>>,
    <<Title_("icb"), Length_(2), Width_(2, 2, TRUE)>>,
    <<Title_("fcb"), Length_(2), Width_(2, 2, TRUE), Data_(<<"0", "1">>), Remark>>,
    <<Length_(2)>>, << >> }
OddData ==
  LinesOf(Listed({<<"0">>, <<"1", "0">>, <<"0", "1">>, <<"x", "1">>, <<"2", "1">>}, 3))
    \union {<<Data_(<<"0", "1">>), Blank, Data_(<<"1", "1">>), Blank>>}

Bits01 == {"0", "1"}
OneSet(n) == {[k \in 1 .. n |-> IF k = at THEN "1" ELSE "0"] : at \in 1 .. n}
ScanTexts ==
  UNION { Prefixed({Header_(n, w, order)},
                   LinesOf(Listed(Strings_(Bits01, w) \union {[k \in 1 .. w + 1 |-> "1"]}, n + 1))) :
            n \in {1, 2}, w \in {1, 2, 3}, order \in BOOLEAN }
    \union UNION { Prefixed({Header_(2, 5, order)}, LinesOf([1 .. 2 -> OneSet(5)])) :
                     order \in BOOLEAN }
    \union Prefixed(OddHeaders, OddData)

BankTexts ==
  UNION { Prefixed({Header_(n, w, order)}, LinesOf([1 .. n -> Strings_(Bits01, n + w)])) :
            n \in {1, 2}, w \in {1, 3}, order \in BOOLEAN }
    \union UNION { Prefixed({Header_(n, 1, order)}, LinesOf([1 .. n -> {<<"1">> \o wl : wl \in Strings_(Bits01, n)}])) :
                     n \in {3}, order \in BOOLEAN }
    \union UNION { Prefixed({Header_(2, 1, order)},
                            LinesOf(Listed(Strings_({"0", "1", "x"}, 3), 2))) : order \in BOOLEAN }
    \union Prefixed({Header_(2, 1, TRUE)}, LinesOf([1 .. 3 -> Strings_(Bits01, 3)]))
    \union Prefixed(OddHeaders,
             LinesOf(Listed({<<"0", "1", "1", "0">>, <<"1", "1", "0", "1">>, <<"0", "1">>}, 3)))

IcbHeader(n) == <<Title_("icb"), Format_(TRUE), Remark, Length_(n)>>
IcbTexts(n) == Prefixed({IcbHeader(n)}, LinesOf([1 .. n -> {<<"0">>, <<"1">>}]))
OddIcbTexts ==
  Prefixed({ IcbHeader(2), <<Title_("icb"), Length_(2)>>, <<Title_("icb"), Format_(FALSE)>>,
             <<Title_("icb"), Format_(TRUE)>>, <<Title_("fcb"), Format_(TRUE), Length_(2)>>,
             <<Title_("icb"), Format_(TRUE), Format_(TRUE), Length_(2)>>,
             <<Blank, Title_("icb"), Length_(2), Length_(2), Format_(TRUE)>>,
             <<Title_("icb"), Length_(2), Width_(2, 2, TRUE), Format_(TRUE), Blank,
               Data_(<<"1">>), Remark>>,
             <<Title_("icb"), Length_(0)>> },
           LinesOf(Listed({<<"0">>, <<"1">>, <<"x">>, <<"0", "1">>}, 3)))
    \union {Text(<< >>)}

Ram(n, bx, by) == [x |-> bx, y |-> by, data |-> [k \in 1 .. PcbBits |-> n * PcbBits + k]]
Without(ram) == [ram EXCEPT !.data = << >>]
TooShort(ram) == [ram EXCEPT !.data = Tail(@)]
Brams ==
  { [exists |-> TRUE, found |-> TRUE, grid |-> grid] :
      grid \in UNION {
        { g \in [1 .. n -> UNION {{Ram(r, bx, by), Without(Ram(r, bx, by))} :
                                    r \in 1 .. n, bx \in {1, 3}, by \in {1, 2}}] :
            \A i, j \in 1 .. n : i # j => (g[i].x # g[j].x \/ g[i].y # g[j].y)
                                      /\ (g[i].data = << >> \/ g[i].data # g[j].data) } :
          n \in 1 .. 2} }
    \union { [exists |-> TRUE, found |-> TRUE, grid |-> <<Ram(1, 1, 1), TooShort(Ram(2, 1, 2))>>],
             [exists |-> TRUE, found |-> FALSE, grid |-> << >>],
             [exists |-> TRUE, found |-> TRUE, grid |-> << >>] }

Scan == [family |-> "Gemini", protocol |-> "scan_chain", blwl |-> ""]
Bank == [family |-> "Virgo", protocol |-> "ql_memory_bank", blwl |-> "flatten"]
OddDevices ==
  { [Scan EXCEPT !.blwl = "flatten"], [Bank EXCEPT !.blwl = ""],
    [Scan EXCEPT !.protocol = "other"], [Scan EXCEPT !.family = "other"] }

ScanText == Text(Header_(1, 3, TRUE) \o <<Data_(<<"1", "1", "0">>)>>)
NoBram == [exists |-> FALSE, found |-> FALSE, grid |-> << >>]
Plain == [device |-> Scan, fcb |-> ScanText, icb |-> NoText, post_icb |-> NoText, bram |-> NoBram]
OfBank(text) == [Plain EXCEPT !.device = Bank, !.fcb = text]

MCProjects ==
  {[Plain EXCEPT !.fcb = text] : text \in ScanTexts \union {NoText}}
    \union {OfBank(text) : text \in BankTexts}
    \union {[Plain EXCEPT !.device = device] : device \in OddDevices}
    \union UNION { {[Plain EXCEPT !.icb = icb, !.post_icb = post] :
                      icb \in IcbTexts(n), post \in IcbTexts(n) \union {NoText}} : n \in {1, 2, 3} }
    \union {[Plain EXCEPT !.icb = icb] : icb \in IcbTexts(4) \union IcbTexts(5) \union OddIcbTexts}
    \union {[Plain EXCEPT !.icb = icb, !.post_icb = post] :
             icb \in IcbTexts(2) \union {NoText}, post \in OddIcbTexts \union IcbTexts(1)}
    \union {[Plain EXCEPT !.bram = bram] : bram \in Brams}

MCRebuilds ==
  { Plain,
    [Plain EXCEPT !.device = [Scan EXCEPT !.family = "other"]],
    [Plain EXCEPT !.icb = Text(IcbHeader(1) \o <<Data_(<<"1">>)>>)],
    [Plain EXCEPT !.fcb = NoText] }
=============================================================================
