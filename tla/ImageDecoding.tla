--------------------------- MODULE ImageDecoding ---------------------------
(***************************************************************************)
(* decodeImage of a DBusRunner: the picture that a service sends with a    *)
(* match is copied line by line, as far as the data go.  All that is known *)
(* of a picture is its size, its format and the length of its data.        *)
(***************************************************************************)
EXTENDS Integers

\* The size is one the code accepts, and so is the format: RGB or ARGB of 8 bits each.
Supported(image) ==
    /\ 0 < image.width /\ image.width < 2048
    /\ 0 < image.height /\ image.height < 2048
    /\ image.rowStride > 0
    /\ image.bitsPerSample = 8 /\ image.channels \in {3, 4}

\* The data hold the line y: its last byte is not behind the end.
Complete(image, y) ==
    y * image.rowStride + image.channels * image.width <= image.length

\* decodeImage: no picture, or one whose lines are copied up to the first one that is not
\* complete; nothing is written to the lines from there on.
NoImage == [lines |-> {}]
DecodeImage(image) ==
    IF ~Supported(image) THEN NoImage
    ELSE [lines |-> {y \in 0..(image.height - 1) : \A z \in 0..y : Complete(image, z)},
          height |-> image.height]
IsNull(decoded) == decoded = NoImage

\* The places in the data that are read for a line.
BytesRead(image, y) ==
    (y * image.rowStride)..(y * image.rowStride + image.channels * image.width - 1)

=============================================================================
