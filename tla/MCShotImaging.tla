---------------------------- MODULE MCShotImaging ----------------------------
EXTENDS ShotImagingProperties

\* All shots; the last one by numbers outside the survey; a range that is
\* empty.
RangesValue == {<<0, -1>>, <<1, 9>>, <<5, 9>>}
=============================================================================
