------------------------------- MODULE Encoder -------------------------------
(***************************************************************************)
(* The arithmetic of video.c: the source's timings, the parameters of the  *)
(* encoder channel and the memory a frame takes.                           *)
(*                                                                         *)
(* Widths and heights are in units of 8 pixels, quality_factor and the     *)
(* refresh rate of the source in tenths, so that products stay within      *)
(* TLC's integers: RK_ALIGN_16 then rounds up to an even number.           *)
(***************************************************************************)
EXTENDS Integers

Sizes == [w : Nat \ {0}, h : Nat \ {0}]
FullHD == [w |-> 240, h |-> 135]
Area(size) == size.w * size.h

\* fps_int of run_detect_format: rounded to the nearest, and never zero.
RoundedFps(tenths) ==
  LET fps == (tenths + 5) \div 10 IN IF fps < 1 THEN 1 ELSE fps

calculate_bitrate(quality, size) ==
  LET base == 512 + ((4000 - 512) * quality) \div 10
      rate == (base * Area(size)) \div Area(FullHD)
  IN IF rate < 200 THEN 200 ELSE rate

is_hd_video(size) == 8 * size.h > 576

\* The colours of the capture format, of a frame and of the VUI.
ColourOf(size) == IF is_hd_video(size) THEN "BT.709" ELSE "BT.601"

RK_ALIGN_16(units) == units + (units % 2)

Gop(fps) ==
  LET half == IF fps > 0 THEN fps \div 2 ELSE 30 IN IF half < 1 THEN 1 ELSE half

populate_venc_attr(rate, size, fps, codec) ==
  [codec |-> codec, rate |-> rate, max |-> (rate * 3) \div 2,
   min |-> IF rate \div 2 < 2 THEN 2 ELSE rate \div 2, gop |-> Gop(fps),
   size |-> size, virtual |-> [w |-> RK_ALIGN_16(size.w), h |-> RK_ALIGN_16(size.h)]]

\* buf_init sizes the blocks of the pool for 3 bytes per pixel of full HD; a
\* YUYV frame has 2 bytes per pixel, and GetMB refuses what does not fit.
FitsBlock(size) == 2 * Area(size) <= 3 * Area(FullHD)
==============================================================================
