----------------------------- MODULE MC_FwConfig -----------------------------
(* NV files for the bootstrap model.  Triplet lengths are chosen around    *)
(* the 252-byte batch limit: 123-byte values fill a batch exactly (2 x 126)*)
(* and 200 + 49 overflow it mid-file; zero-length values are allowed.      *)
EXTENDS FwConfig

T(tag, len) == [tag |-> tag, len |-> len, avail |-> len]
Cut(tag, len, avail) == [tag |-> tag, len |-> len, avail |-> avail]

GoodTlvFiles ==
  { <<T(1, 6)>>,
    <<T(1, 6), T(2, 123), T(3, 123), T(4, 0)>>,
    <<T(2, 200), T(3, 49), T(1, 6)>>,
    <<T(5, 249), T(1, 6)>> }

\* the last value is cut short by the end of the file
ShortTlvFiles == { <<T(1, 6), Cut(2, 20, 5)>> }

\* a triplet whose value alone exceeds the batch limit
OversizedTlvFiles == { <<T(1, 6), T(2, 250)>> }

\* sizes of sv6160.nvbin: empty, short, exactly one block, several blocks
GoodBlockSizes == {0, 100, 252, 600}

\* every kind of file, well-formed or not
AnyTlvFiles == GoodTlvFiles \cup ShortTlvFiles \cup OversizedTlvFiles

\* /dev/vendor_storage: missing, failing its ioctl, holding zeros, holding
\* an address whose byte order matters
VS(o, k, d) == [open |-> o, ioctlOk |-> k, data |-> d]
Storages ==
  { VS(FALSE, FALSE, <<0, 0, 0, 0, 0, 0>>), VS(TRUE, FALSE, <<0, 0, 0, 0, 0, 0>>),
    VS(TRUE, TRUE, <<0, 0, 0, 0, 0, 0>>), VS(TRUE, TRUE, <<192, 0, 0, 0, 1, 2>>) }
Provisioned == { VS(TRUE, TRUE, <<192, 0, 0, 0, 1, 2>>) }

OtherChip == 4660   \* 0x1234, an id the code maps to 6160
=============================================================================
