------------------------ MODULE MCFrequencyPipeline ------------------------
EXTENDS FrequencyPipelineProperties
=============================================================================
