------------------------------ MODULE Firmware ------------------------------
(***************************************************************************)
(* The firmware store (rtw88_firmware.c): blobs that are compressed into    *)
(* the kext and inflated when the driver asks for them.  A blob is          *)
(* [comp, plain]: its compressed and its real size.  What is modelled is    *)
(* the memory: IOFree needs the size that was allocated, not the size of    *)
(* the data, so every operator says how many bytes it adds to the heap.     *)
(***************************************************************************)
EXTENDS Integers

FwStruct == 3     \* sizeof(struct firmware), in the units of the blob sizes
ZState   == 2     \* what inflateInit asks rtw88_zcalloc for
ZHeader  == 1     \* what rtw88_zcalloc adds to remember the size

NoFirmware == [data |-> 0, size |-> 0]

rtw88_zcalloc(n) == n + ZHeader
rtw88_zcfree(alloc) == 0 - alloc

\* inflate writes into a buffer of dest bytes: it fails when the data is larger.
rtw88_decompress(blob, dest) ==
    [ok   |-> blob.plain <= dest,
     heap |-> rtw88_zcalloc(ZState) + rtw88_zcfree(rtw88_zcalloc(ZState))]

\* The buffer is four times the compressed size; on failure it is given back.
\* A name that is not in the table yields a null pointer.
load_fw_from_blob(blobs, name) ==
    LET alloc == 4 * blobs[name].comp
        z     == rtw88_decompress(blobs[name], alloc)
    IN  IF name \notin DOMAIN blobs THEN [fw |-> NoFirmware, heap |-> 0]
        ELSE IF z.ok THEN [fw   |-> [data |-> alloc, size |-> blobs[name].plain],
                           heap |-> alloc + z.heap + FwStruct]
        ELSE [fw |-> NoFirmware, heap |-> alloc + z.heap - alloc]

\* The bytes release_firmware gives back; none for a null pointer.
release_firmware(fw) == IF fw = NoFirmware THEN 0 ELSE 0 - fw.data - FwStruct
=============================================================================
