--------------------------- MODULE MCRenderQueue ----------------------------
\* Instances of the render queue for TLC.
EXTENDS RenderQueue
=============================================================================
